---- MODULE Spec2Model ----
(***************************************************************************)
(* A model of go-won's state database (core/state/statedb.go), of the      *)
(* governance contract dispatched by core/vm (kycExecute) and of the       *)
(* rotating-signer snapshot.                                               *)
(*                                                                         *)
(* A StateDB is a record; the *stateObject values it points to live in     *)
(* `heap`, so that two StateDB instances sharing a pointer is expressible. *)
(* Every method is an operator on a machine                                *)
(*     m = [h |-> heap, s |-> StateDB, db |-> keys of s.db]                *)
(* returning the machine after the call (or [m, ret] when it returns a     *)
(* value).  Hashes and addresses are naturals: common.Address is a 160-bit *)
(* number, common.Hash a 256-bit number, addr.Hash() and BigToHash agree.  *)
(***************************************************************************)
EXTENDS Integers, Sequences, FiniteSets, TLC

VARIABLES
    heap,      \* Ref -> stateObject: the objects the StateDBs point to
    sdb,       \* instance -> StateDB (1: the original, 2: its copy)
    store,     \* the keys of the underlying byte store
    last,      \* the last call made and what it returned
    hist,      \* ghost: what the claims compare against (see each specification)
    now,       \* evm.Time
    thr        \* the threads of the concurrent specification

vars == <<heap, sdb, store, last, hist, now, thr>>

---------------------------------------------------------------------------
\* Finite maps: a Go map (or a trie) is a function whose DOMAIN is its key set.

EmptyMap == <<>>

Get(f, k) == IF k \in DOMAIN f THEN f[k] ELSE 0

Put(f, k, v) == (k :> v) @@ f

Del(f, k) == [x \in (DOMAIN f) \ {k} |-> f[x]]

Min(S) == CHOOSE x \in S : \A y \in S : x <= y

\* F applied to the value of x: a local variable of the code, assigned once
\* and read as often as F reads it.  The value is computed before F is
\* applied, as Go evaluates the operand of an assignment and the arguments of
\* a call.
With(x, F(_)) == CHOOSE r \in {F(v) : v \in {x}} : TRUE

\* The elements of a finite set of naturals in ascending order.
RECURSIVE SortedSeq(_)
SortedSeq(S) == IF S = {} THEN <<>> ELSE <<Min(S)>> \o SortedSeq(S \ {Min(S)})

---------------------------------------------------------------------------
\* Addresses, codes and hashes.

ZeroAddress == 0

KycContractAddress == 9

\* Contract code is one of a few byte strings, named by number; code c is c
\* bytes long.  NilCode is the nil slice of an object whose code was never set.
NilCode == 0

CodeLen(code) == code

\* crypto.Keccak256Hash, injective on the codes of the model.
Keccak256Hash(code) == code + 1

emptyCode == Keccak256Hash(NilCode)

\* The code whose hash is h (what db.ContractCode finds under h).
CodeOfHash(h) == h - 1

---------------------------------------------------------------------------
\* Account, stateObject and the journal.

EmptyAccount ==
    [Nonce |-> 0, Balance |-> 0, KycLevel |-> 0, KycZone |-> 0,
     KycProvider |-> ZeroAddress, Root |-> EmptyMap, CodeHash |-> emptyCode]

\* state.newObject.  data.Root stands for the object's storage trie: the trie
\* is opened from data.Root and data.Root is set to its hash at every flush.
newObject(address, data) ==
    [address |-> address, data |-> data, code |-> NilCode,
     cachedStorage |-> EmptyMap, dirtyStorage |-> EmptyMap,
     suicided |-> FALSE, dirtyCode |-> FALSE, deleted |-> FALSE, dbErr |-> 0]

\* stateObject.empty
empty(obj) ==
    /\ obj.data.Nonce = 0
    /\ obj.data.Balance = 0
    /\ obj.data.CodeHash = emptyCode

\* A journal entry.  account is the address the entry dirties (dirtied), key
\* and prev, prev2 what its inverse needs, ref the displaced object of a
\* resetObjectChange.
Entry(kind, account, dirtied, key, prev, prev2, ref) ==
    [kind |-> kind, account |-> account, dirtied |-> dirtied, key |-> key,
     prev |-> prev, prev2 |-> prev2, ref |-> ref]

NoKey == <<0, 0>>

newJournal == <<>>

\* journal.dirties: the addresses with at least one entry in the journal.
dirties(journal) ==
    {journal[i].account : i \in {k \in 1..Len(journal) : journal[k].dirtied}}

\* journal.append
append(m, e) == [m EXCEPT !.s.journal = Append(@, e)]

\* The smallest unused reference: the allocation of a new *stateObject.
NewRef(h) == Min({r \in 1..(Cardinality(DOMAIN h) + 1) : r \notin DOMAIN h})

---------------------------------------------------------------------------
\* StateDB: construction, errors, object lookup.

\* state.New over a trie with the given accounts; `missing` are the addresses
\* whose account node the database cannot resolve, `missingStorage` those
\* whose storage trie it cannot resolve.
New(trie, missing, missingStorage) ==
    [trie |-> trie, missing |-> missing, missingStorage |-> missingStorage,
     stateObjects |-> EmptyMap, stateObjectsDirty |-> {},
     dbErr |-> 0, refund |-> 0, logs |-> <<>>, logSize |-> 0,
     journal |-> newJournal, validRevisions |-> <<>>, nextRevisionId |-> 0]

\* The errors of the database, 0 for nil: a MissingNodeError of the account
\* trie, of a storage trie, and a contract code that is not found.
AccountErr(addr) == addr

StorageErr(addr) == 100 + addr

CodeErr(codeHash) == 200 + codeHash

\* The error a read or write of addr in the account trie returns.
TrieErr(s, addr) == IF addr \in s.missing THEN AccountErr(addr) ELSE 0

setError(m, err) ==
    IF m.s.dbErr = 0 THEN [m EXCEPT !.s.dbErr = err] ELSE m

setStateObject(m, addr, ref) ==
    [m EXCEPT !.s.stateObjects = Put(@, addr, ref)]

\* getStateObject: [m, ref], ref = 0 for nil.
getStateObject(m, addr) ==
    LET ref == Get(m.s.stateObjects, addr) IN
    IF ref # 0
    THEN [m |-> m, ref |-> IF m.h[ref].deleted THEN 0 ELSE ref]
    ELSE IF TrieErr(m.s, addr) # 0 \/ addr \notin DOMAIN m.s.trie
         THEN [m |-> setError(m, TrieErr(m.s, addr)), ref |-> 0]
         ELSE [m |-> setStateObject(
                         [m EXCEPT !.h = Put(@, NewRef(m.h),
                                             newObject(addr, m.s.trie[addr]))],
                         addr, NewRef(m.h)),
               ref |-> NewRef(m.h)]

\* stateObject.setNonce and friends: the unjournaled writes.
obj_setNonce(m, ref, nonce) == [m EXCEPT !.h[ref].data.Nonce = nonce]

obj_setBalance(m, ref, amount) == [m EXCEPT !.h[ref].data.Balance = amount]

obj_setCode(m, ref, codeHash, code) ==
    [m EXCEPT !.h[ref].code = code,
              !.h[ref].data.CodeHash = codeHash,
              !.h[ref].dirtyCode = TRUE]

obj_setState(m, ref, key, value) ==
    [m EXCEPT !.h[ref].cachedStorage = Put(@, key, value),
              !.h[ref].dirtyStorage = Put(@, key, value)]

\* createObject journaling a createObjectChange also over an existing object.
createObject_NoReset(m, addr) ==
    With(getStateObject(m, addr), LAMBDA p :
        LET new == NewRef(p.m.h) IN
        [m |-> setStateObject(
                   append(obj_setNonce(
                              [p.m EXCEPT !.h = Put(@, new, newObject(addr, EmptyAccount))],
                              new, 0),
                          Entry("createObject", addr, TRUE, NoKey, 0, 0, 0)),
                   addr, new),
         ref |-> new, prev |-> p.ref])

\* createObject: [m, ref, prev].
createObject(m, addr) ==
    With(getStateObject(m, addr), LAMBDA p :
        LET new == NewRef(p.m.h) IN
        [m |-> setStateObject(
                   append(obj_setNonce(
                              [p.m EXCEPT !.h = Put(@, new, newObject(addr, EmptyAccount))],
                              new, 0),
                          IF p.ref = 0
                          THEN Entry("createObject", addr, TRUE, NoKey, 0, 0, 0)
                          ELSE Entry("resetObject", addr, FALSE, NoKey, 0, 0, p.ref)),
                   addr, new),
         ref |-> new, prev |-> p.ref])

GetOrNewStateObject(m, addr) ==
    With(getStateObject(m, addr), LAMBDA r :
        IF r.ref = 0
        THEN With(createObject(r.m, addr), LAMBDA c : [m |-> c.m, ref |-> c.ref])
        ELSE r)

---------------------------------------------------------------------------
\* stateObject's journaled setters and its reads.

\* stateObject.touch
obj_touch(m, ref) ==
    append(m, Entry("touch", m.h[ref].address, TRUE, NoKey, 0, 0, 0))

obj_SetBalance(m, ref, amount) ==
    obj_setBalance(
        append(m, Entry("balance", m.h[ref].address, TRUE, NoKey,
                        m.h[ref].data.Balance, 0, 0)),
        ref, amount)

obj_AddBalance(m, ref, amount) ==
    IF amount = 0
    THEN IF empty(m.h[ref]) THEN obj_touch(m, ref) ELSE m
    ELSE obj_SetBalance(m, ref, m.h[ref].data.Balance + amount)

obj_SubBalance(m, ref, amount) ==
    IF amount = 0
    THEN m
    ELSE obj_SetBalance(m, ref, m.h[ref].data.Balance - amount)

obj_SetNonce(m, ref, nonce) ==
    obj_setNonce(
        append(m, Entry("nonce", m.h[ref].address, TRUE, NoKey,
                        m.h[ref].data.Nonce, 0, 0)),
        ref, nonce)

obj_SetCode(m, ref, codeHash, code) ==
    obj_setCode(
        append(m, Entry("code", m.h[ref].address, TRUE, NoKey,
                        m.h[ref].data.CodeHash, m.h[ref].code, 0)),
        ref, codeHash, code)

\* stateObject.setError: the first error of the object's storage trie.
obj_setError(m, ref, err) ==
    IF m.h[ref].dbErr = 0 THEN [m EXCEPT !.h[ref].dbErr = err] ELSE m

\* stateObject.GetState: [m, ret], the cached value, else the storage trie's;
\* a failing trie read is remembered in the object and reads as zero.
obj_GetState(m, ref, key) ==
    LET obj == m.h[ref] IN
    IF key \in DOMAIN obj.cachedStorage
    THEN [m |-> m, ret |-> obj.cachedStorage[key]]
    ELSE IF obj.address \in m.s.missingStorage
         THEN [m |-> obj_setError(m, ref, StorageErr(obj.address)), ret |-> 0]
         ELSE [m |-> m, ret |-> Get(obj.data.Root, key)]

obj_SetState(m, ref, key, value) ==
    With(obj_GetState(m, ref, key), LAMBDA g :
        obj_setState(
            append(g.m, Entry("storage", m.h[ref].address, TRUE, key, g.ret, 0, 0)),
            ref, key, value))

\* The KYC fields of the account record, journaled like the nonce.
obj_SetKyc(m, ref, field, value) ==
    [append(m, Entry(field, m.h[ref].address, TRUE, NoKey,
                     m.h[ref].data[field], 0, 0))
        EXCEPT !.h[ref].data[field] = value]

\* stateObject.Code: the code in memory, else the code stored under its hash.
\* [code, err]
obj_Code(obj, codeStore) ==
    IF obj.code # NilCode THEN [code |-> obj.code, err |-> 0]
    ELSE IF obj.data.CodeHash = emptyCode THEN [code |-> NilCode, err |-> 0]
    ELSE IF <<"code", obj.data.CodeHash>> \in codeStore
         THEN [code |-> CodeOfHash(obj.data.CodeHash), err |-> 0]
         ELSE [code |-> NilCode, err |-> CodeErr(obj.data.CodeHash)]

\* stateObject.updateTrie: the dirty slots go to the storage trie, a zero
\* value deleting its slot.
RECURSIVE FlushSlots(_, _)
FlushSlots(root, dirty) ==
    IF DOMAIN dirty = {} THEN root
    ELSE LET k == CHOOSE x \in DOMAIN dirty : TRUE IN
         FlushSlots(IF dirty[k] = 0 THEN Del(root, k) ELSE Put(root, k, dirty[k]),
                    Del(dirty, k))

\* stateObject.updateRoot: updateTrie, then data.Root.  The writes to a trie
\* that cannot be resolved fail and are remembered in the object.
obj_updateRoot(m, ref) ==
    LET obj == m.h[ref] IN
    IF obj.dirtyStorage = EmptyMap THEN m
    ELSE IF obj.address \in m.s.missingStorage
         THEN [obj_setError(m, ref, StorageErr(obj.address))
                  EXCEPT !.h[ref].dirtyStorage = EmptyMap]
         ELSE [m EXCEPT !.h[ref].data.Root = FlushSlots(@, obj.dirtyStorage),
                        !.h[ref].dirtyStorage = EmptyMap]

\* stateObject.CommitTrie: [m, err]; updateTrie, the object's error if it has
\* one, else the storage trie is committed to the database.
obj_CommitTrie(m, ref) ==
    With(obj_updateRoot(m, ref), LAMBDA m1 :
        IF m1.h[ref].dbErr # 0
        THEN [m |-> m1, err |-> m1.h[ref].dbErr]
        ELSE [m |-> IF m1.h[ref].data.Root = EmptyMap THEN m1
                    ELSE [m1 EXCEPT !.db = @ \cup {<<"storage", m1.h[ref].address>>}],
              err |-> 0])

\* stateObject.deepCopy
deepCopy(obj) ==
    [address |-> obj.address, data |-> obj.data, code |-> obj.code,
     cachedStorage |-> obj.dirtyStorage, dirtyStorage |-> obj.dirtyStorage,
     suicided |-> obj.suicided, dirtyCode |-> obj.dirtyCode,
     deleted |-> obj.deleted, dbErr |-> 0]

---------------------------------------------------------------------------
\* StateDB: logs, refund, reads.

AddLog(m, addr, data) ==
    [append(m, Entry("addLog", 0, FALSE, NoKey, 0, 0, 0))
        EXCEPT !.s.logs = Append(@, [Address |-> addr, Data |-> data,
                                      Index |-> m.s.logSize]),
                !.s.logSize = @ + 1]

GetLogs(s) == s.logs

AddRefund(m, gas) ==
    [append(m, Entry("refund", 0, FALSE, NoKey, m.s.refund, 0, 0))
        EXCEPT !.s.refund = @ + gas]

GetRefund(s) == s.refund

\* Every read is [m, ret], m being the machine after getStateObject.
Exist(m, addr) ==
    With(getStateObject(m, addr), LAMBDA r : [m |-> r.m, ret |-> r.ref # 0])

Empty(m, addr) ==
    With(getStateObject(m, addr), LAMBDA r :
        [m |-> r.m, ret |-> r.ref = 0 \/ empty(r.m.h[r.ref])])

GetBalance(m, addr) ==
    With(getStateObject(m, addr), LAMBDA r :
        [m |-> r.m, ret |-> IF r.ref # 0 THEN r.m.h[r.ref].data.Balance ELSE 0])

GetNonce(m, addr) ==
    With(getStateObject(m, addr), LAMBDA r :
        [m |-> r.m, ret |-> IF r.ref # 0 THEN r.m.h[r.ref].data.Nonce ELSE 0])

\* The code read by GetCode and GetCodeSize: [m, ret], a code that is not
\* found reading as nil and its error kept by setError.
ReadCode(r) ==
    IF r.ref = 0 THEN [m |-> r.m, ret |-> NilCode]
    ELSE With(obj_Code(r.m.h[r.ref], r.m.db), LAMBDA c :
             [m |-> setError(r.m, c.err), ret |-> c.code])

GetCode(m, addr) == ReadCode(getStateObject(m, addr))

GetCodeSize(m, addr) ==
    With(ReadCode(getStateObject(m, addr)), LAMBDA c :
        [m |-> c.m, ret |-> CodeLen(c.ret)])

GetCodeHash(m, addr) ==
    With(getStateObject(m, addr), LAMBDA r :
        [m |-> r.m, ret |-> IF r.ref # 0 THEN r.m.h[r.ref].data.CodeHash ELSE 0])

GetState(m, addr, key) ==
    With(getStateObject(m, addr), LAMBDA r :
        IF r.ref # 0 THEN obj_GetState(r.m, r.ref, key) ELSE [m |-> r.m, ret |-> 0])

HasSuicided(m, addr) ==
    With(getStateObject(m, addr), LAMBDA r :
        [m |-> r.m, ret |-> IF r.ref # 0 THEN r.m.h[r.ref].suicided ELSE FALSE])

---------------------------------------------------------------------------
\* StateDB: setters.

AddBalance(m, addr, amount) ==
    With(m, LAMBDA s :
        With(GetOrNewStateObject(s, addr), LAMBDA r : obj_AddBalance(r.m, r.ref, amount)))

SubBalance(m, addr, amount) ==
    With(m, LAMBDA s :
        With(GetOrNewStateObject(s, addr), LAMBDA r : obj_SubBalance(r.m, r.ref, amount)))

SetBalance(m, addr, amount) ==
    With(GetOrNewStateObject(m, addr), LAMBDA r : obj_SetBalance(r.m, r.ref, amount))

SetNonce(m, addr, nonce) ==
    With(GetOrNewStateObject(m, addr), LAMBDA r : obj_SetNonce(r.m, r.ref, nonce))

SetCode(m, addr, code) ==
    With(GetOrNewStateObject(m, addr), LAMBDA r :
        obj_SetCode(r.m, r.ref, Keccak256Hash(code), code))

SetState(m, addr, key, value) ==
    With(GetOrNewStateObject(m, addr), LAMBDA r :
        obj_SetState(r.m, r.ref, key, value))

\* Suicide leaving the balance as it is.
Suicide_KeepBalance(m, addr) ==
    With(getStateObject(m, addr), LAMBDA r :
        IF r.ref = 0 THEN [m |-> r.m, ret |-> FALSE]
        ELSE [m |-> [append(r.m, Entry("suicide", addr, TRUE, NoKey,
                                       r.m.h[r.ref].data.Balance,
                                       IF r.m.h[r.ref].suicided THEN 1 ELSE 0, 0))
                        EXCEPT !.h[r.ref].suicided = TRUE],
              ret |-> TRUE])

\* Suicide: [m, ret]
Suicide(m, addr) ==
    With(getStateObject(m, addr), LAMBDA r :
        IF r.ref = 0 THEN [m |-> r.m, ret |-> FALSE]
        ELSE [m |-> [append(r.m, Entry("suicide", addr, TRUE, NoKey,
                                       r.m.h[r.ref].data.Balance,
                                       IF r.m.h[r.ref].suicided THEN 1 ELSE 0, 0))
                        EXCEPT !.h[r.ref].suicided = TRUE,
                               !.h[r.ref].data.Balance = 0],
              ret |-> TRUE])

CreateAccount(m, addr) ==
    With(createObject(m, addr), LAMBDA c :
        IF c.prev # 0
        THEN obj_setBalance(c.m, c.ref, c.m.h[c.prev].data.Balance)
        ELSE c.m)

---------------------------------------------------------------------------
\* The journal's inverses, snapshots and reverts.

\* journalEntry.revert for each kind of entry.
undo(m, e) ==
    LET ref == Get(m.s.stateObjects, e.account) IN
    CASE e.kind = "createObject" ->
            [m EXCEPT !.s.stateObjects = Del(@, e.account),
                      !.s.stateObjectsDirty = @ \ {e.account}]
      [] e.kind = "resetObject" -> setStateObject(m, e.account, e.ref)
      [] e.kind = "suicide" ->
            IF ref = 0 THEN m
            ELSE [m EXCEPT !.h[ref].suicided = (e.prev2 = 1),
                           !.h[ref].data.Balance = e.prev]
      [] e.kind = "balance" -> obj_setBalance(m, ref, e.prev)
      [] e.kind = "nonce" -> obj_setNonce(m, ref, e.prev)
      [] e.kind = "storage" -> obj_setState(m, ref, e.key, e.prev)
      [] e.kind = "code" -> obj_setCode(m, ref, e.prev, e.prev2)
      [] e.kind \in {"KycLevel", "KycZone", "KycProvider"} ->
            [m EXCEPT !.h[ref].data[e.kind] = e.prev]
      [] e.kind = "refund" -> [m EXCEPT !.s.refund = e.prev]
      [] e.kind = "addLog" ->
            [m EXCEPT !.s.logs = SubSeq(@, 1, Len(@) - 1),
                      !.s.logSize = @ - 1]
      [] OTHER -> m

\* journal.revert: undo the entries above `snapshot`, newest first.
RECURSIVE journal_revert(_, _)
journal_revert(m, snapshot) ==
    IF Len(m.s.journal) <= snapshot THEN m
    ELSE journal_revert(
             [undo(m, m.s.journal[Len(m.s.journal)])
                 EXCEPT !.s.journal = SubSeq(@, 1, Len(@) - 1)],
             snapshot)

\* Snapshot: [m, ret]
Snapshot(m) ==
    [m |-> [m EXCEPT !.s.nextRevisionId = @ + 1,
                     !.s.validRevisions =
                         Append(@, [id |-> m.s.nextRevisionId,
                                    journalIndex |-> Len(m.s.journal)])],
     ret |-> m.s.nextRevisionId]

\* sort.Search over validRevisions: the first index whose id is >= revid,
\* one past the end when there is none (indices from 1).
SearchRevision(revs, revid) ==
    Min({i \in 1..Len(revs) : revs[i].id >= revid} \cup {Len(revs) + 1})

\* RevertToSnapshot without the comparison of the id found with revid.
RevertToSnapshot_AnyId(m, revid) ==
    LET revs == m.s.validRevisions
        idx  == SearchRevision(revs, revid)
    IN IF idx = Len(revs) + 1
       THEN [m |-> m, panic |-> TRUE]
       ELSE [m |-> [journal_revert(m, revs[idx].journalIndex)
                       EXCEPT !.s.validRevisions = SubSeq(revs, 1, idx - 1)],
             panic |-> FALSE]

\* RevertToSnapshot: [m, panic]
RevertToSnapshot(m, revid) ==
    LET revs == m.s.validRevisions
        idx  == SearchRevision(revs, revid)
    IN IF idx = Len(revs) + 1 \/ revs[idx].id # revid
       THEN [m |-> m, panic |-> TRUE]
       ELSE [m |-> [journal_revert(m, revs[idx].journalIndex)
                       EXCEPT !.s.validRevisions = SubSeq(revs, 1, idx - 1)],
             panic |-> FALSE]

---------------------------------------------------------------------------
\* Finalise, IntermediateRoot, Commit, Copy.

\* updateStateObject: trie.TryUpdate(addr, rlp(obj)).
updateStateObject(m, ref) ==
    LET addr == m.h[ref].address IN
    IF TrieErr(m.s, addr) # 0
    THEN setError(m, TrieErr(m.s, addr))
    ELSE [m EXCEPT !.s.trie = Put(@, addr, m.h[ref].data)]

\* deleteStateObject: trie.TryDelete(addr).
deleteStateObject(m, ref) ==
    LET addr == m.h[ref].address
        m1   == [m EXCEPT !.h[ref].deleted = TRUE]
    IN IF TrieErr(m.s, addr) # 0
       THEN setError(m1, TrieErr(m.s, addr))
       ELSE [m1 EXCEPT !.s.trie = Del(@, addr)]

\* clearJournalAndRefund leaving the revision stack as it is.
clearJournalAndRefund_KeepRevisions(m) ==
    [m EXCEPT !.s.journal = newJournal,
              !.s.refund = 0]

clearJournalAndRefund(m) ==
    [m EXCEPT !.s.journal = newJournal,
              !.s.validRevisions = <<>>,
              !.s.refund = 0]

\* The body of Finalise's loop for one address of journal.dirties.
FinaliseOne(m, addr, deleteEmptyObjects) ==
    LET ref == Get(m.s.stateObjects, addr) IN
    IF ref = 0 THEN m
    ELSE [(IF m.h[ref].suicided \/ (deleteEmptyObjects /\ empty(m.h[ref]))
           THEN deleteStateObject(m, ref)
           ELSE updateStateObject(obj_updateRoot(m, ref), ref))
             EXCEPT !.s.stateObjectsDirty = @ \cup {addr}]

\* A loop over a Go map: the iterations touch disjoint objects and trie
\* keys, so the order matters only for which error setError keeps; the
\* addresses are taken in ascending order.
RECURSIVE FinaliseLoop(_, _, _)
FinaliseLoop(m, addrs, deleteEmptyObjects) ==
    IF addrs = <<>> THEN m
    ELSE FinaliseLoop(FinaliseOne(m, Head(addrs), deleteEmptyObjects),
                      Tail(addrs), deleteEmptyObjects)

Finalise(m, deleteEmptyObjects) ==
    clearJournalAndRefund(
        FinaliseLoop(m, SortedSeq(dirties(m.s.journal)), deleteEmptyObjects))

\* The body of Commit's loop for one address of stateObjects: [m, err].
CommitOne(m, addr, deleteEmptyObjects) ==
    LET ref     == m.s.stateObjects[addr]
        obj     == m.h[ref]
        isDirty == addr \in m.s.stateObjectsDirty
        done(x) == [x EXCEPT !.s.stateObjectsDirty = @ \ {addr}]
    IN IF obj.suicided \/ (isDirty /\ deleteEmptyObjects /\ empty(obj))
       THEN [m |-> done(deleteStateObject(m, ref)), err |-> 0]
       ELSE IF isDirty
            THEN With(obj_CommitTrie(
                          IF obj.code # NilCode /\ obj.dirtyCode
                          THEN [m EXCEPT !.db = @ \cup {<<"code", obj.data.CodeHash>>},
                                         !.h[ref].dirtyCode = FALSE]
                          ELSE m,
                          ref),
                      LAMBDA c :
                          IF c.err # 0
                          THEN c
                          ELSE [m |-> done(updateStateObject(c.m, ref)), err |-> 0])
            ELSE [m |-> done(m), err |-> 0]

\* The loop stops at the first object whose storage trie fails to commit.
RECURSIVE CommitLoop(_, _, _)
CommitLoop(m, addrs, deleteEmptyObjects) ==
    IF addrs = <<>> THEN [m |-> m, err |-> 0]
    ELSE With(CommitOne(m, Head(addrs), deleteEmptyObjects), LAMBDA c :
             IF c.err # 0 THEN c
             ELSE CommitLoop(c.m, Tail(addrs), deleteEmptyObjects))

\* Commit: [m, root, err].  trie.Commit writes the account trie's nodes to
\* the database and returns its root; clearJournalAndRefund is deferred.
Commit(m, deleteEmptyObjects) ==
    With(CommitLoop([m EXCEPT !.s.stateObjectsDirty = @ \cup dirties(m.s.journal)],
                    SortedSeq(DOMAIN m.s.stateObjects), deleteEmptyObjects),
         LAMBDA c :
             IF c.err # 0
             THEN [m |-> clearJournalAndRefund(c.m), root |-> EmptyMap, err |-> c.err]
             ELSE [m |-> clearJournalAndRefund(
                             [c.m EXCEPT !.db = @ \cup {<<"account", a>> :
                                                          a \in DOMAIN c.m.s.trie}]),
                   root |-> c.m.s.trie, err |-> 0])

\* IntermediateRoot with Commit in the place of Finalise.
IntermediateRoot_Commits(m, deleteEmptyObjects) ==
    With(Commit(m, deleteEmptyObjects), LAMBDA c : [m |-> c.m, ret |-> c.root])

\* IntermediateRoot: [m, ret], the root hash standing for the trie it hashes.
IntermediateRoot(m, deleteEmptyObjects) ==
    With(Finalise(m, deleteEmptyObjects), LAMBDA m1 : [m |-> m1, ret |-> m1.s.trie])

\* Copy's composite literal: the fields copied by value, the maps empty.
CopyFields(s) ==
    [trie |-> s.trie, missing |-> s.missing, missingStorage |-> s.missingStorage,
     stateObjects |-> EmptyMap, stateObjectsDirty |-> {},
     dbErr |-> 0, refund |-> s.refund, logs |-> <<>>, logSize |-> s.logSize,
     journal |-> newJournal, validRevisions |-> <<>>, nextRevisionId |-> 0]

\* The copy pointing to the object of the source instead of a deepCopy of it.
CopyObject_Shared(h, state, ref) ==
    [h |-> h,
     state |-> [state EXCEPT !.stateObjects = Put(@, h[ref].address, ref),
                             !.stateObjectsDirty = @ \cup {h[ref].address}]]

\* state.stateObjects[addr] = object.deepCopy(state): [h, state]
CopyObject(h, state, ref) ==
    LET new == NewRef(h) IN
    [h |-> Put(h, new, deepCopy(h[ref])),
     state |-> [state EXCEPT !.stateObjects = Put(@, h[ref].address, new),
                             !.stateObjectsDirty = @ \cup {h[ref].address}]]

\* Copy's two loops over the source's dirty addresses: [h, state]
RECURSIVE CopyObjects(_, _, _, _)
CopyObjects(h, self, state, addrs) ==
    IF addrs = <<>> THEN [h |-> h, state |-> state]
    ELSE LET addr == Head(addrs) IN
         IF addr \in DOMAIN self.stateObjects /\ addr \notin DOMAIN state.stateObjects
         THEN With(CopyObject(h, state, self.stateObjects[addr]), LAMBDA c :
                  CopyObjects(c.h, self, c.state, Tail(addrs)))
         ELSE CopyObjects(h, self, state, Tail(addrs))

\* Copy's loop over the logs.
CopyLogs(self, state) == [state EXCEPT !.logs = self.logs]

\* Copy: [h, state], the heap with the copy's objects and the copy.
Copy(h, self) ==
    With(CopyObjects(h, self, CopyFields(self), SortedSeq(dirties(self.journal))),
         LAMBDA c1 :
             With(CopyObjects(c1.h, self, c1.state, SortedSeq(self.stateObjectsDirty)),
                  LAMBDA c2 : [h |-> c2.h, state |-> CopyLogs(self, c2.state)]))

---------------------------------------------------------------------------
\* Machines, calls and what a caller can observe.

\* The machine of instance i in the current state.
M(i) == [h |-> heap, s |-> sdb[i], db |-> store]

\* The garbage collector: the objects no StateDB and no journal points to
\* are gone.
Reachable(S) ==
    UNION {{S[i].stateObjects[a] : a \in DOMAIN S[i].stateObjects}
           \cup {S[i].journal[k].ref : k \in 1..Len(S[i].journal)} : i \in DOMAIN S}

GC(h, S) == [r \in (DOMAIN h) \cap Reachable(S) |-> h[r]]

\* A call of a mutating method, as the tests' snapshotTest actions.
Op(kind, addr, key, val, flag) ==
    [kind |-> kind, addr |-> addr, key |-> key, val |-> val, flag |-> flag]

\* The call op made on machine m: [m, ret].
Apply(m, op) ==
    CASE op.kind = "SetBalance" -> [m |-> SetBalance(m, op.addr, op.val), ret |-> TRUE]
      [] op.kind = "AddBalance" -> [m |-> AddBalance(m, op.addr, op.val), ret |-> TRUE]
      [] op.kind = "SubBalance" -> [m |-> SubBalance(m, op.addr, op.val), ret |-> TRUE]
      [] op.kind = "SetNonce" -> [m |-> SetNonce(m, op.addr, op.val), ret |-> TRUE]
      [] op.kind = "SetState" -> [m |-> SetState(m, op.addr, op.key, op.val), ret |-> TRUE]
      [] op.kind = "SetCode" -> [m |-> SetCode(m, op.addr, op.val), ret |-> TRUE]
      [] op.kind = "CreateAccount" -> [m |-> CreateAccount(m, op.addr), ret |-> TRUE]
      [] op.kind = "Suicide" -> Suicide(m, op.addr)
      [] op.kind = "AddRefund" -> [m |-> AddRefund(m, op.val), ret |-> TRUE]
      [] op.kind = "AddLog" -> [m |-> AddLog(m, op.addr, op.val), ret |-> TRUE]
      [] op.kind = "Finalise" -> [m |-> Finalise(m, op.flag), ret |-> TRUE]
      [] op.kind = "IntermediateRoot" ->
            [m |-> IntermediateRoot(m, op.flag).m, ret |-> TRUE]
      [] op.kind = "Commit" ->
            With(Commit(m, op.flag), LAMBDA c : [m |-> c.m, ret |-> c.err = 0])

\* The addresses and storage keys the calls of the model use.
Addrs == {11, 12}

Keys == {<<0, 1>>}

\* What the read accessors return for one address.
Observe(m, addr) ==
    [Exist       |-> Exist(m, addr).ret,
     HasSuicided |-> HasSuicided(m, addr).ret,
     GetBalance  |-> GetBalance(m, addr).ret,
     GetNonce    |-> GetNonce(m, addr).ret,
     GetCode     |-> GetCode(m, addr).ret,
     GetCodeHash |-> GetCodeHash(m, addr).ret,
     GetCodeSize |-> GetCodeSize(m, addr).ret,
     GetState    |-> [k \in Keys |-> GetState(m, addr, k).ret]]

\* What every read accessor returns: checkEqual's comparison.
Observables(m) ==
    [accounts  |-> [a \in Addrs |-> Observe(m, a)],
     GetRefund |-> GetRefund(m.s),
     GetLogs   |-> GetLogs(m.s)]

\* A fresh StateDB over an empty database.
Fresh == [h |-> EmptyMap, s |-> New(EmptyMap, {}, {}), db |-> {}]

\* The calls of ops made in order on machine m.
RECURSIVE Replay(_, _)
Replay(m, ops) ==
    IF ops = <<>> THEN m ELSE Replay(Apply(m, Head(ops)).m, Tail(ops))

\* What a call leaves in `last`.
Call(op, inst, addr, id, ok, panic) ==
    [op |-> op, inst |-> inst, addr |-> addr, id |-> id, ok |-> ok, panic |-> panic]

---------------------------------------------------------------------------
\* SpecJournal and SpecFinalise: one StateDB, created fresh over an empty
\* database.  SpecJournal drives it by the mutating calls, Snapshot and
\* RevertToSnapshot; SpecFinalise adds Finalise, IntermediateRoot and Commit.
\*
\* hist.ops (kept by SpecJournal) are the calls in effect: a call is appended
\* when it is made and a successful RevertToSnapshot(id) cuts hist.ops back
\* to its length at the Snapshot that returned id (hist.marks, a map from the
\* ids returned).  hist.calls counts the mutating calls made, hist.old are
\* the ids returned before the last Finalise, hist.committed is whether
\* Commit was ever called.

MaxOps == 3

MaxSnapshots == 2

MaxAmount == 1

\* The accounts the calls of this specification are made on.
JAddrs == {11}

\* The calls a run of SpecFinalise makes.
FMaxOps == 3

FreshInit(replay, max) ==
    /\ heap = EmptyMap
    /\ sdb = [i \in {1} |-> New(EmptyMap, {}, {})]
    /\ store = {}
    /\ last = Call("New", 1, 0, -1, TRUE, FALSE)
    /\ hist = [replay |-> replay, max |-> max, ops |-> <<>>, marks |-> EmptyMap,
               calls |-> 0, old |-> {}, committed |-> FALSE]
    /\ now = 0
    /\ thr = <<>>

JInit == FreshInit(TRUE, MaxOps)

FInit == FreshInit(FALSE, FMaxOps)

IsBoundary(kind) == kind \in {"Finalise", "IntermediateRoot", "Commit"}

\* The step to machine m of instance i, the unreachable objects collected.
Goto(i, m) ==
    /\ sdb' = [sdb EXCEPT ![i] = m.s]
    /\ heap' = GC(m.h, [sdb EXCEPT ![i] = m.s])
    /\ store' = m.db

\* The step of a call that returned r = [m, ret].
Returned(op, r) ==
    /\ Goto(1, r.m)
    /\ last' = Call(op.kind, 1, op.addr, -1, r.ret, FALSE)

\* A panic is fatal: the program that panicked makes no further call.
CanCall == ~last.panic /\ hist.calls < hist.max

\* One mutating call on the StateDB.
JStep(op) ==
    /\ Returned(op, Apply(M(1), op))
    /\ hist' = [hist EXCEPT !.ops = IF hist.replay THEN Append(@, op) ELSE @,
                            !.calls = @ + 1,
                            !.old = IF IsBoundary(op.kind) THEN DOMAIN hist.marks ELSE @,
                            !.committed = @ \/ op.kind = "Commit"]
    /\ UNCHANGED <<now, thr>>

DoSetBalance ==
    \E a \in JAddrs, v \in 1..MaxAmount :
        /\ CanCall
        /\ JStep(Op("SetBalance", a, NoKey, v, FALSE))

DoAddBalance ==
    \E a \in JAddrs, v \in 0..MaxAmount :
        /\ CanCall
        /\ JStep(Op("AddBalance", a, NoKey, v, FALSE))

DoSetNonce ==
    \E a \in JAddrs, v \in 1..MaxAmount :
        /\ CanCall
        /\ JStep(Op("SetNonce", a, NoKey, v, FALSE))

DoSetState ==
    \E a \in JAddrs, k \in Keys, v \in 0..MaxAmount :
        /\ CanCall
        /\ JStep(Op("SetState", a, k, v, FALSE))

DoSetCode ==
    \E a \in JAddrs, c \in 1..MaxAmount :
        /\ CanCall
        /\ JStep(Op("SetCode", a, NoKey, c, FALSE))

DoCreateAccount ==
    \E a \in JAddrs :
        /\ CanCall
        /\ JStep(Op("CreateAccount", a, NoKey, 0, FALSE))

DoSuicide ==
    \E a \in JAddrs :
        /\ CanCall
        /\ JStep(Op("Suicide", a, NoKey, 0, FALSE))

DoAddRefund ==
    \E g \in 1..MaxAmount :
        /\ CanCall
        /\ JStep(Op("AddRefund", 0, NoKey, g, FALSE))

DoAddLog ==
    \E a \in JAddrs :
        /\ CanCall
        /\ JStep(Op("AddLog", a, NoKey, 1, FALSE))

DoFinalise ==
    \E d \in BOOLEAN :
        /\ CanCall
        /\ JStep(Op("Finalise", 0, NoKey, 0, d))

DoIntermediateRoot ==
    \E d \in BOOLEAN :
        /\ CanCall
        /\ JStep(Op("IntermediateRoot", 0, NoKey, 0, d))

DoCommit ==
    \E d \in BOOLEAN :
        /\ CanCall
        /\ JStep(Op("Commit", 0, NoKey, 0, d))

Snapshotted(r) ==
    /\ Goto(1, r.m)
    /\ last' = Call("Snapshot", 1, 0, r.ret, TRUE, FALSE)
    /\ hist' = [hist EXCEPT !.marks = Put(@, r.ret, Len(hist.ops))]

DoSnapshot ==
    /\ ~last.panic
    /\ sdb[1].nextRevisionId < MaxSnapshots
    /\ Snapshotted(Snapshot(M(1)))
    /\ UNCHANGED <<now, thr>>

Reverted(id, r) ==
    /\ Goto(1, r.m)
    /\ last' = Call("RevertToSnapshot", 1, 0, id, ~r.panic, r.panic)
    /\ hist' = IF r.panic THEN hist
               ELSE [hist EXCEPT !.ops = SubSeq(@, 1, hist.marks[id])]

DoRevertToSnapshot ==
    \E id \in 0..MaxSnapshots :
        /\ ~last.panic
        /\ Reverted(id, RevertToSnapshot(M(1), id))
        /\ UNCHANGED <<now, thr>>

JNext ==
    \/ DoSetBalance
    \/ DoAddBalance
    \/ DoSetNonce
    \/ DoSetState
    \/ DoSetCode
    \/ DoCreateAccount
    \/ DoSuicide
    \/ DoAddRefund
    \/ DoAddLog
    \/ DoSnapshot
    \/ DoRevertToSnapshot

SpecJournal == JInit /\ [][JNext]_vars

FNext ==
    \/ JNext
    \/ DoFinalise
    \/ DoIntermediateRoot
    \/ DoCommit

SpecFinalise == FInit /\ [][FNext]_vars

\* The machine of instance i after the step.
MNext(i) == [h |-> heap', s |-> sdb'[i], db |-> store']

\* The ids of the revisions in a revision stack.
RevisionIds(revs) == {revs[i].id : i \in 1..Len(revs)}

\* The revisions of a stack that are older than id.
Older(revs, id) == SelectSeq(revs, LAMBDA rev : rev.id < id)

\* C1 (journal reversibility): after a successful RevertToSnapshot(id) every
\* read accessor returns what it returns on a fresh StateDB on which only the
\* calls in effect before the Snapshot() that returned id were replayed.
C1_JournalReversibility ==
    (last.op = "RevertToSnapshot" /\ ~last.panic)
        => Observables(M(1)) = Observables(Replay(Fresh, hist.ops))

\* A revert that undid calls on an account that other calls, still in effect,
\* had made before the snapshot.
C1_Witness ==
    /\ last.op = "RevertToSnapshot"
    /\ ~last.panic
    /\ hist.ops # <<>>
    /\ hist.calls > Len(hist.ops)
    /\ \E a \in Addrs : Exist(M(1), a).ret

\* C3 (no premature persistence): as long as Commit has not been called the
\* database under the StateDB holds no key, whatever setters and
\* IntermediateRoot calls were made.
C3_NoPrematurePersistence == ~hist.committed => store = {}

\* An IntermediateRoot that wrote an account with code to the trie, before
\* any Commit.
C3_Witness ==
    /\ ~hist.committed
    /\ last.op = "IntermediateRoot"
    /\ \E a \in DOMAIN sdb[1].trie : sdb[1].trie[a].CodeHash # emptyCode

\* C4 (RevertToSnapshot validity): the revision stack holds only ids that
\* Snapshot returned; RevertToSnapshot(id) with id in the stack succeeds and
\* leaves exactly the revisions older than id; with any other id it panics
\* and changes nothing.
C4_RevertValidity ==
    [][last'.op = "RevertToSnapshot" =>
          /\ RevisionIds(sdb[1].validRevisions) \subseteq DOMAIN hist.marks
          /\ IF last'.id \in RevisionIds(sdb[1].validRevisions)
             THEN /\ ~last'.panic
                  /\ sdb'[1].validRevisions = Older(sdb[1].validRevisions, last'.id)
             ELSE /\ last'.panic
                  /\ sdb' = sdb /\ heap' = heap /\ store' = store]_vars

\* A revert to an id that Snapshot returned and an earlier revert discarded:
\* it panicked, an older revision being still in the stack.
C4_Witness ==
    /\ last.op = "RevertToSnapshot"
    /\ last.panic
    /\ last.id \in DOMAIN hist.marks
    /\ sdb[1].validRevisions # <<>>
    /\ sdb[1].journal # <<>>

\* C5 (Finalise is a revert boundary): Finalise, IntermediateRoot and Commit
\* leave the journal and the revision stack empty and the refund 0; a
\* RevertToSnapshot with an id returned before them panics and changes
\* nothing; Snapshot never returns an id it returned before.
C5_FinaliseBoundary ==
    [][/\ IsBoundary(last'.op) =>
              /\ sdb'[1].journal = newJournal
              /\ sdb'[1].validRevisions = <<>>
              /\ sdb'[1].refund = 0
       /\ (last'.op = "RevertToSnapshot" /\ last'.id \in hist.old) =>
              /\ last'.panic
              /\ sdb' = sdb /\ heap' = heap /\ store' = store
       /\ last'.op = "Snapshot" => last'.id \notin DOMAIN hist.marks]_vars

\* A revert, after a Finalise that kept an account, to an id returned before
\* that Finalise.
C5_Witness ==
    /\ last.op = "RevertToSnapshot"
    /\ last.panic
    /\ last.id \in hist.old
    /\ sdb[1].trie # EmptyMap

\* C10 (Suicide): Suicide of an existing account returns true, leaves its
\* balance 0, HasSuicided and Exist true and its nonce, code and storage as
\* they were; Suicide of an account that does not exist returns false and
\* changes nothing; a suicided account exists after every call but Finalise,
\* IntermediateRoot, Commit and a revert, and after those three it does not.
C10_Suicide ==
    [][/\ last'.op = "Suicide" =>
              IF Exist(M(1), last'.addr).ret
              THEN /\ last'.ok
                   /\ Observe(MNext(1), last'.addr) =
                          [Observe(M(1), last'.addr)
                              EXCEPT !.GetBalance = 0, !.HasSuicided = TRUE]
              ELSE /\ ~last'.ok
                   /\ Observables(MNext(1)) = Observables(M(1))
       /\ \A a \in Addrs :
              HasSuicided(M(1), a).ret =>
                  CASE IsBoundary(last'.op) -> ~Exist(MNext(1), a).ret
                    [] last'.op = "RevertToSnapshot" -> TRUE
                    [] OTHER -> Exist(MNext(1), a).ret]_vars

\* A Finalise that removed a suicided account.
C10_Witness ==
    /\ IsBoundary(last.op)
    /\ \E a \in DOMAIN sdb[1].stateObjects :
           /\ heap[sdb[1].stateObjects[a]].suicided
           /\ heap[sdb[1].stateObjects[a]].deleted
           /\ ~Exist(M(1), a).ret

---------------------------------------------------------------------------
\* SpecCopy: a StateDB (instance 1) is driven by setters and Finalise, copied
\* once (instance 2), and then both instances are driven, each by its own
\* thread.  Finalise is a sequence of steps, one per address of
\* journal.dirties, so that the Finalise of one instance interleaves with the
\* calls and the Finalise of the other (TestCopy finalises them concurrently).
\*
\* thr[i] is the Finalise instance i is in: busy, the addresses left, its flag.
\* hist counts the calls made before and after the copy.

CMaxPre == 2

CMaxPost == 3

Idle == [busy |-> FALSE, addrs |-> <<>>, flag |-> FALSE]

CInit ==
    /\ heap = EmptyMap
    /\ sdb = [i \in {1} |-> New(EmptyMap, {}, {})]
    /\ store = {}
    /\ last = Call("New", 1, 0, -1, TRUE, FALSE)
    /\ hist = [copied |-> FALSE, pre |-> 0, post |-> 0]
    /\ now = 0
    /\ thr = [i \in {1, 2} |-> Idle]

\* Instance i may start a call: it exists, is not inside Finalise, and the
\* calls of its phase are not used up.
CCanCall(i) ==
    /\ i \in DOMAIN sdb
    /\ ~thr[i].busy
    /\ IF hist.copied THEN hist.post < CMaxPost ELSE hist.pre < CMaxPre

CCount ==
    hist' = IF hist.copied THEN [hist EXCEPT !.post = @ + 1]
            ELSE [hist EXCEPT !.pre = @ + 1]

\* The step of a call on instance i that returned r = [m, ret].
CReturned(i, op, r) ==
    /\ Goto(i, r.m)
    /\ last' = Call(op.kind, i, op.addr, -1, r.ret, FALSE)

CStep(i, op) ==
    /\ CReturned(i, op, Apply(M(i), op))
    /\ CCount
    /\ UNCHANGED <<now, thr>>

CAddBalance ==
    \E i \in {1, 2}, a \in Addrs :
        /\ CCanCall(i)
        /\ CStep(i, Op("AddBalance", a, NoKey, 1, FALSE))

CSetState ==
    \E i \in {1, 2}, a \in Addrs, k \in Keys :
        /\ CCanCall(i)
        /\ CStep(i, Op("SetState", a, k, 1, FALSE))

CSuicide ==
    \E i \in {1, 2}, a \in Addrs :
        /\ CCanCall(i)
        /\ CStep(i, Op("Suicide", a, NoKey, 0, FALSE))

\* Finalise is entered: the addresses of journal.dirties are to be visited.
CFinaliseBegin ==
    \E i \in {1, 2}, d \in BOOLEAN :
        /\ CCanCall(i)
        /\ thr' = [thr EXCEPT ![i] = [busy |-> TRUE,
                                      addrs |-> SortedSeq(dirties(sdb[i].journal)),
                                      flag |-> d]]
        /\ last' = Call("FinaliseBegin", i, 0, -1, TRUE, FALSE)
        /\ CCount
        /\ UNCHANGED <<heap, sdb, store, now>>

\* One iteration of Finalise's loop.
CFinaliseOne ==
    \E i \in {1, 2} :
        /\ thr[i].busy
        /\ thr[i].addrs # <<>>
        /\ Goto(i, FinaliseOne(M(i), Head(thr[i].addrs), thr[i].flag))
        /\ thr' = [thr EXCEPT ![i].addrs = Tail(@)]
        /\ last' = Call("FinaliseOne", i, Head(thr[i].addrs), -1, TRUE, FALSE)
        /\ UNCHANGED <<hist, now>>

\* The loop is over: clearJournalAndRefund, and Finalise returns.
CFinaliseEnd ==
    \E i \in {1, 2} :
        /\ thr[i].busy
        /\ thr[i].addrs = <<>>
        /\ Goto(i, clearJournalAndRefund(M(i)))
        /\ thr' = [thr EXCEPT ![i] = Idle]
        /\ last' = Call("Finalise", i, 0, -1, TRUE, FALSE)
        /\ UNCHANGED <<hist, now>>

\* The step of the Copy that returned c = [h, state].
Copied(c) ==
    /\ sdb' = [i \in {1, 2} |-> IF i = 1 THEN sdb[1] ELSE c.state]
    /\ heap' = GC(c.h, [i \in {1, 2} |-> IF i = 1 THEN sdb[1] ELSE c.state])

CCopy ==
    /\ ~hist.copied
    /\ ~thr[1].busy
    /\ Copied(Copy(heap, sdb[1]))
    /\ last' = Call("Copy", 0, 0, -1, TRUE, FALSE)
    /\ hist' = [hist EXCEPT !.copied = TRUE]
    /\ UNCHANGED <<store, now, thr>>

CNext ==
    \/ CAddBalance
    \/ CSetState
    \/ CSuicide
    \/ CFinaliseBegin
    \/ CFinaliseOne
    \/ CFinaliseEnd
    \/ CCopy

SpecCopy == CInit /\ [][CNext]_vars

\* C2 (copy independence): after the copy, a step of a call or of a Finalise
\* on one instance leaves every value the read accessors return on the other
\* instance as it was, for every account.
C2_CopyIndependence ==
    [][(hist.copied /\ last'.inst \in {1, 2}) =>
           Observables(M(3 - last'.inst)) = Observables(MNext(3 - last'.inst))]_vars

\* The two instances are inside Finalise at the same time and hold different
\* balances for an account that was touched before the copy.
C2_Witness ==
    /\ hist.copied
    /\ thr[1].busy
    /\ thr[2].busy
    /\ last.op = "FinaliseOne"
    /\ \E a \in DOMAIN sdb[2].stateObjects :
           /\ a \in DOMAIN sdb[1].stateObjects
           /\ GetBalance(M(1), a).ret # GetBalance(M(2), a).ret

---------------------------------------------------------------------------
\* SpecDbErr: one StateDB over a database that holds two accounts, with
\* storage and code, and that fails to resolve some of it: the account nodes
\* of `missing`, the storage tries of `missingStorage`, and the contract code
\* when it is lost.  The run reads, writes and commits.
\*
\* hist.failed is the error of the database that occurred in the last call,
\* hist.first the first one that ever occurred, hist.pending whether no
\* Commit was called since, hist.ret the value the last read returned and
\* hist.err the error the last Commit returned.

EMaxOps == 3

\* The code of the accounts of the database.
DbCode == 1

\* The account the database holds for every address.
DbAccount ==
    [EmptyAccount EXCEPT !.Nonce = 1, !.Balance = 1,
                         !.Root = Put(EmptyMap, <<0, 1>>, 1),
                         !.CodeHash = Keccak256Hash(DbCode)]

\* A call of a read accessor on machine m: [m, ret].
Query(m, op) ==
    CASE op.kind = "Exist" -> Exist(m, op.addr)
      [] op.kind = "GetBalance" -> GetBalance(m, op.addr)
      [] op.kind = "GetNonce" -> GetNonce(m, op.addr)
      [] op.kind = "GetCode" -> GetCode(m, op.addr)
      [] op.kind = "GetCodeSize" -> GetCodeSize(m, op.addr)
      [] op.kind = "GetState" -> GetState(m, op.addr, op.key)
      [] OTHER -> Apply(m, op)

\* The zero value of what a read accessor returns.
Zero(kind) == IF kind = "Exist" THEN FALSE ELSE 0

\* Machine m with no error remembered, and the error a machine remembers:
\* that of the StateDB, else that of one of its objects, else 0.
Cleared(m) ==
    [m EXCEPT !.s.dbErr = 0,
              !.h = [r \in DOMAIN m.h |-> [m.h[r] EXCEPT !.dbErr = 0]]]

Failure(m) ==
    IF m.s.dbErr # 0 THEN m.s.dbErr
    ELSE IF \E r \in DOMAIN m.h : m.h[r].dbErr # 0
         THEN m.h[CHOOSE r \in DOMAIN m.h : m.h[r].dbErr # 0].dbErr
         ELSE 0

\* The errors machine m has memoized: StateDB.dbErr and stateObject.dbErr.
Memoized(m) ==
    {m.s.dbErr} \cup {m.h[m.s.stateObjects[a]].dbErr : a \in DOMAIN m.s.stateObjects}

EInit ==
    \E missing \in SUBSET Addrs, missingStorage \in SUBSET Addrs, lost \in BOOLEAN :
        /\ heap = EmptyMap
        /\ sdb = [i \in {1} |-> New([a \in Addrs |-> DbAccount], missing, missingStorage)]
        /\ store = {<<"account", a>> : a \in Addrs \ missing}
                     \cup {<<"storage", a>> : a \in Addrs \ missingStorage}
                     \cup (IF lost THEN {} ELSE {<<"code", Keccak256Hash(DbCode)>>})
        /\ last = Call("New", 1, 0, -1, TRUE, FALSE)
        /\ hist = [max |-> EMaxOps, calls |-> 0, first |-> 0, pending |-> FALSE,
                   failed |-> 0, ret |-> 0, err |-> 0]
        /\ now = 0
        /\ thr = <<>>

\* The step of a call that returned r = [m, ret] and, for Commit, the error
\* err, and in which the error e of the database occurred.
EReturned(op, r, err, e) ==
    /\ Goto(1, r.m)
    /\ last' = Call(op.kind, 1, op.addr, -1, TRUE, FALSE)
    /\ hist' = [hist EXCEPT !.calls = @ + 1,
                            !.failed = e,
                            !.first = IF @ = 0 THEN e ELSE @,
                            !.pending = IF op.kind = "Commit" THEN FALSE
                                        ELSE @ \/ (hist.first = 0 /\ e # 0),
                            !.ret = r.ret,
                            !.err = err]
    /\ UNCHANGED <<now, thr>>

EStep(op) ==
    EReturned(op, Query(M(1), op), 0, Failure(Query(Cleared(M(1)), op).m))

EExist ==
    \E a \in Addrs :
        /\ CanCall
        /\ EStep(Op("Exist", a, NoKey, 0, FALSE))

EGetBalance ==
    \E a \in Addrs :
        /\ CanCall
        /\ EStep(Op("GetBalance", a, NoKey, 0, FALSE))

EGetNonce ==
    \E a \in Addrs :
        /\ CanCall
        /\ EStep(Op("GetNonce", a, NoKey, 0, FALSE))

EGetCode ==
    \E a \in Addrs :
        /\ CanCall
        /\ EStep(Op("GetCode", a, NoKey, 0, FALSE))

EGetCodeSize ==
    \E a \in Addrs :
        /\ CanCall
        /\ EStep(Op("GetCodeSize", a, NoKey, 0, FALSE))

EGetState ==
    \E a \in Addrs, k \in Keys :
        /\ CanCall
        /\ EStep(Op("GetState", a, k, 0, FALSE))

EAddBalance ==
    \E a \in Addrs :
        /\ CanCall
        /\ EStep(Op("AddBalance", a, NoKey, 1, FALSE))

ESetState ==
    \E a \in Addrs, k \in Keys :
        /\ CanCall
        /\ EStep(Op("SetState", a, k, 2, FALSE))

\* The step of the Commit that returned c = [m, root, err].
ECommitted(op, c, e) == EReturned(op, [m |-> c.m, ret |-> 0], c.err, e)

ECommit ==
    \E flag \in BOOLEAN :
        /\ CanCall
        /\ ECommitted(Op("Commit", 0, NoKey, 0, flag),
                      Commit(M(1), flag),
                      Failure(Commit(Cleared(M(1)), flag).m))

ENext ==
    \/ EExist
    \/ EGetBalance
    \/ EGetNonce
    \/ EGetCode
    \/ EGetCodeSize
    \/ EGetState
    \/ EAddBalance
    \/ ESetState
    \/ ECommit

SpecDbErr == EInit /\ [][ENext]_vars

EReads == {"Exist", "GetBalance", "GetNonce", "GetCode", "GetCodeSize", "GetState"}

\* C8 (deferred database errors): a read in which the database fails returns
\* the zero value; the first error that ever occurred stays memoized; and
\* the next Commit returns it.
C8_DeferredErrors ==
    [][/\ (last'.op \in EReads /\ hist'.failed # 0) => hist'.ret = Zero(last'.op)
       /\ hist'.first # 0 => hist'.first \in Memoized(MNext(1))
       /\ (last'.op = "Commit" /\ hist.pending) => hist'.err = hist.first]_vars

\* C8, the part the code keeps: a failing read returns the zero value and the
\* first error stays memoized, in the StateDB or in the object it occurred in.
C8_Memoized ==
    [][/\ (last'.op \in EReads /\ hist'.failed # 0) => hist'.ret = Zero(last'.op)
       /\ hist'.first # 0 => hist'.first \in Memoized(MNext(1))]_vars

\* A Commit returned nil although an error of a read was pending.
C8_Witness ==
    /\ last.op = "Commit"
    /\ hist.first # 0
    /\ hist.err = 0

---------------------------------------------------------------------------
\* SpecConc: one StateDB shared by three threads.  The mutator calls setters
\* and Finalise on it, which take no lock; each copier calls Copy() on it
\* once.  Copy is split where another thread can run: taking self.lock, the
\* composite literal, every iteration of its two loops, and the return that
\* copies the logs and releases the lock.  Copier c builds sdb[c].
\*
\* A Go range over a map that another thread writes is a data race.  Its
\* outcomes are modelled as: the iteration order is arbitrary; a key removed
\* before it is reached is not produced; a key added during the loop is
\* produced or skipped; or the runtime stops the program with a fatal error
\* (NFatal).
\*
\* thr.lock is the holder of self.lock, 0 when free.  thr.cp[c] is copier
\* c's position: pc; first, the keys of the ranged map when the loop began;
\* visited, the keys produced; keys and live, the journal.dirties map the
\* first loop ranges over, which Finalise detaches from the StateDB
\* (clearJournalAndRefund installs a new journal).
\*
\* hist.start[c] is what a Copy() made atomically when c took the lock would
\* observe, hist.cuts[c] what an atomic Copy() would observe at that point
\* or after any of the mutator's calls made since, hist.raced[c] whether the
\* mutator made a call since.

NMaxOps == 3

Copiers == {2, 3}

\* sync.Mutex.Lock returns when the mutex is free.
CanLock_Always(lock) == TRUE

CanLock(lock) == lock = 0

InCopy(pc) == pc \in {"fields", "dirties", "dirty"}

NotStarted == [pc |-> "idle", first |-> {}, visited |-> {}, keys |-> {}, live |-> FALSE]

\* What the read accessors return on the copy c = [h, state] over database db.
ObserveCopy(c, db) == Observables([h |-> c.h, s |-> c.state, db |-> db])

\* What the read accessors return on a Copy() of machine m.
CopyObservables(m) == ObserveCopy(Copy(m.h, m.s), m.db)

NInit ==
    /\ heap = EmptyMap
    /\ sdb = [i \in {1} |-> New(EmptyMap, {}, {})]
    /\ store = {}
    /\ last = Call("New", 1, 0, -1, TRUE, FALSE)
    /\ hist = [max |-> NMaxOps, calls |-> 0,
               start |-> [c \in Copiers |-> <<>>],
               cuts |-> [c \in Copiers |-> {}],
               raced |-> [c \in Copiers |-> FALSE]]
    /\ now = 0
    /\ thr = [lock |-> 0, cp |-> [c \in Copiers |-> NotStarted]]

\* The copier's record after the mutator's call of kind: Finalise detaches
\* the journal.dirties a first loop ranges over.
Detach(cp, kind) ==
    IF cp.pc = "dirties" /\ cp.live /\ kind = "Finalise"
    THEN [cp EXCEPT !.keys = dirties(sdb[1].journal), !.live = FALSE]
    ELSE cp

\* The step of a call of the mutator that returned r = [m, ret], obs being
\* what a Copy() of the source observes after it.
NReturned(op, r, obs) ==
    /\ Goto(1, r.m)
    /\ last' = Call(op.kind, 1, op.addr, -1, r.ret, FALSE)
    /\ hist' = [hist EXCEPT !.calls = @ + 1,
                            !.cuts = [c \in Copiers |->
                                         IF InCopy(thr.cp[c].pc) THEN @[c] \cup {obs}
                                         ELSE @[c]],
                            !.raced = [c \in Copiers |-> @[c] \/ InCopy(thr.cp[c].pc)]]
    /\ thr' = [thr EXCEPT !.cp = [c \in Copiers |-> Detach(@[c], op.kind)]]
    /\ UNCHANGED now

NObserved(op, r) == NReturned(op, r, CopyObservables(r.m))

NStep(op) == NObserved(op, Apply(M(1), op))

NAddBalance ==
    \E a \in Addrs, v \in 0..MaxAmount :
        /\ CanCall
        /\ NStep(Op("AddBalance", a, NoKey, v, FALSE))

NAddRefund ==
    /\ CanCall
    /\ NStep(Op("AddRefund", 0, NoKey, 1, FALSE))

NFinalise ==
    \E d \in BOOLEAN :
        /\ CanCall
        /\ NStep(Op("Finalise", 0, NoKey, 0, d))

\* The runtime detects the concurrent map access and stops the program.
NFatal ==
    /\ CanCall
    /\ \E c \in Copiers : thr.cp[c].pc \in {"dirties", "dirty"}
    /\ last' = Call("fatal", 1, 0, -1, FALSE, TRUE)
    /\ UNCHANGED <<heap, sdb, store, hist, now, thr>>

\* self.lock.Lock(), the first statement of Copy.
KLock ==
    \E c \in Copiers :
        /\ ~last.panic
        /\ thr.cp[c].pc = "idle"
        /\ CanLock(thr.lock)
        /\ thr' = [thr EXCEPT !.lock = c, !.cp[c].pc = "fields"]
        /\ hist' = [hist EXCEPT !.start[c] = CopyObservables(M(1)),
                                !.cuts[c] = {CopyObservables(M(1))},
                                !.raced[c] = FALSE]
        /\ last' = Call("Lock", c, 0, -1, TRUE, FALSE)
        /\ UNCHANGED <<heap, sdb, store, now>>

\* The composite literal, and the range expression of the first loop.
KFields ==
    \E c \in Copiers :
        /\ ~last.panic
        /\ thr.cp[c].pc = "fields"
        /\ sdb' = [i \in DOMAIN sdb \cup {c} |->
                      IF i = c THEN CopyFields(sdb[1]) ELSE sdb[i]]
        /\ thr' = [thr EXCEPT !.cp[c] = [pc |-> "dirties",
                                         first |-> dirties(sdb[1].journal),
                                         visited |-> {},
                                         keys |-> dirties(sdb[1].journal),
                                         live |-> TRUE]]
        /\ last' = Call("CopyFields", c, 0, -1, TRUE, FALSE)
        /\ UNCHANGED <<heap, store, hist, now>>

\* The keys of the map copier c ranges over, as they are now.
RangeKeys(c) ==
    IF thr.cp[c].pc = "dirties"
    THEN IF thr.cp[c].live THEN dirties(sdb[1].journal) ELSE thr.cp[c].keys
    ELSE sdb[1].stateObjectsDirty

\* The loop of copier c may end: every key it began with was produced or is
\* gone.
LoopDone(c) == (thr.cp[c].first \cap RangeKeys(c)) \ thr.cp[c].visited = {}

\* The step of one iteration by copier c that left r = [h, state].
KCopied(c, addr, r) ==
    /\ sdb' = [sdb EXCEPT ![c] = r.state]
    /\ heap' = GC(r.h, [sdb EXCEPT ![c] = r.state])
    /\ thr' = [thr EXCEPT !.cp[c].visited = @ \cup {addr}]
    /\ last' = Call("CopyObject", c, addr, -1, TRUE, FALSE)
    /\ UNCHANGED <<store, hist, now>>

\* One iteration of the loop over self.journal.dirties.
KDirties ==
    \E c \in Copiers :
        /\ ~last.panic
        /\ thr.cp[c].pc = "dirties"
        /\ \E addr \in RangeKeys(c) \ thr.cp[c].visited :
               KCopied(c, addr, CopyObjects(heap, sdb[1], sdb[c], <<addr>>))

\* The first loop ends and the second begins.
KLoopEnd ==
    \E c \in Copiers :
        /\ ~last.panic
        /\ thr.cp[c].pc = "dirties"
        /\ LoopDone(c)
        /\ thr' = [thr EXCEPT !.cp[c] = [pc |-> "dirty",
                                         first |-> sdb[1].stateObjectsDirty,
                                         visited |-> {},
                                         keys |-> {},
                                         live |-> FALSE]]
        /\ last' = Call("CopyLoop", c, 0, -1, TRUE, FALSE)
        /\ UNCHANGED <<heap, sdb, store, hist, now>>

\* One iteration of the loop over self.stateObjectsDirty.
KDirty ==
    \E c \in Copiers :
        /\ ~last.panic
        /\ thr.cp[c].pc = "dirty"
        /\ \E addr \in RangeKeys(c) \ thr.cp[c].visited :
               KCopied(c, addr, CopyObjects(heap, sdb[1], sdb[c], <<addr>>))

\* The second loop ends; the logs are copied, the deferred Unlock runs and
\* Copy returns.
KReturn ==
    \E c \in Copiers :
        /\ ~last.panic
        /\ thr.cp[c].pc = "dirty"
        /\ LoopDone(c)
        /\ sdb' = [sdb EXCEPT ![c] = CopyLogs(sdb[1], sdb[c])]
        /\ thr' = [thr EXCEPT !.lock = 0, !.cp[c].pc = "done"]
        /\ last' = Call("Copy", c, 0, -1, TRUE, FALSE)
        /\ UNCHANGED <<heap, store, hist, now>>

NNext ==
    \/ NAddBalance
    \/ NAddRefund
    \/ NFinalise
    \/ NFatal
    \/ KLock
    \/ KFields
    \/ KDirties
    \/ KLoopEnd
    \/ KDirty
    \/ KReturn

SpecConc == NInit /\ [][NNext]_vars

\* Copier c returns from Copy in this step.
Returns(c) == thr.cp[c].pc = "dirty" /\ thr'.cp[c].pc = "done"

---------------------------------------------------------------------------
\* The KYC and DPoS governance state: the KYC fields of the accounts and the
\* storage of the reserved account KycContractAddress.
\*
\* A storage key is a pair.  BigToHash(base, i) stands for
\* common.BigToHash(big.NewInt(base * 10^9 + i)): the start keys of the lists
\* are multiples of 10^9 and are written in that unit.  AddressToHashWithPrefix
\* is injective and meets no list.  A getter is [m, ret], m being the machine
\* after the GetOrNewStateObject the getter may make.

kycProviderStartHash == 10

kycVoterStartHash == 20

kycVoteResultStartHash == 21

dposProducerAllStartKey == 30

BigToHash(base, i) == <<base, i>>

AddressToHashWithPrefix(addr, prefix) == <<prefix, addr>>

kycProviderNumberKey == BigToHash(0, 1)

kycProposalAddressKey == BigToHash(0, 2)

kycProposalStartTimeKey == BigToHash(0, 3)

kycProposalVoteTotalKey == BigToHash(0, 4)

kycProposalAlreadyVotedKey == BigToHash(0, 5)

dposTotalActivatedStakeKey == BigToHash(0, 100)

dposProducerCountKey == BigToHash(0, 101)

dposTopProducerElectedDoneKey == BigToHash(0, 105)

\* The reserved account, created when it is not there: [m, ref].
Reserved(m) == GetOrNewStateObject(m, KycContractAddress)

\* stateObject.GetState of r = [m, ref].
Slot(r, key) == obj_GetState(r.m, r.ref, key).ret

\* stateObject.SetState on the reserved account.
SetSlot(m, key, value) ==
    With(m, LAMBDA s :
        With(Reserved(s), LAMBDA r : obj_SetState(r.m, r.ref, key, value)))

\* A getter that reads one slot of the reserved account through
\* GetOrNewStateObject.
GetSlot(m, key) ==
    With(Reserved(m), LAMBDA r : [m |-> r.m, ret |-> Slot(r, key)])

IsContractAddress(m, address) ==
    With(GetCodeSize(m, address), LAMBDA c : [m |-> c.m, ret |-> c.ret > 0])

\* GetContractCreator that follows no link: every address is its own creator.
GetContractCreator_Self(m, addr) == [m |-> m, ret |-> addr]

GetContractCreator(m, addr) ==
    With(IsContractAddress(m, addr), LAMBDA c :
        IF c.ret
        THEN With(getStateObject(c.m, addr), LAMBDA r :
                 [m |-> r.m,
                  ret |-> IF r.ref # 0 THEN r.m.h[r.ref].data.KycProvider ELSE addr])
        ELSE [m |-> c.m, ret |-> addr])

\* if self.IsContractAddress(addr) { addr = self.GetContractCreator(addr) }
HumanOf(m, addr) ==
    With(IsContractAddress(m, addr), LAMBDA c :
        IF c.ret THEN GetContractCreator(c.m, addr) ELSE [m |-> c.m, ret |-> addr])

GetKycProviderCount(m) == GetSlot(m, kycProviderNumberKey)

SetKycProviderCount(m, c) == SetSlot(m, kycProviderNumberKey, c)

\* The providers in the order of their slots.
GetKycProviderList(m) ==
    With(GetKycProviderCount(m), LAMBDA n :
        [m |-> n.m,
         ret |-> [i \in 1..n.ret |->
                     GetState(n.m, KycContractAddress,
                              BigToHash(kycProviderStartHash, i - 1)).ret]])

\* KycProviderExists that takes every address for a provider.
KycProviderExists_Always(m, addr) == [m |-> m, ret |-> TRUE]

KycProviderExists(m, addr) ==
    With(GetKycProviderList(m), LAMBDA l :
        [m |-> l.m,
         ret |-> Len(l.ret) = 0 \/ \E i \in 1..Len(l.ret) : l.ret[i] = addr])
\* A variant that returns the recorded provider without looking it up in the
\* provider list.
GetKycProvider_Recorded(m, addr) ==
    With(HumanOf(m, addr), LAMBDA a :
        With(getStateObject(a.m, a.ret), LAMBDA r :
            [m |-> r.m,
             ret |-> IF r.ref = 0 THEN ZeroAddress ELSE r.m.h[r.ref].data.KycProvider]))

GetKycProvider(m, addr) ==
    With(HumanOf(m, addr), LAMBDA a :
        With(getStateObject(a.m, a.ret), LAMBDA r :
            IF r.ref = 0 THEN [m |-> r.m, ret |-> ZeroAddress]
            ELSE With(KycProviderExists(r.m, r.m.h[r.ref].data.KycProvider), LAMBDA e :
                     [m |-> e.m,
                      ret |-> IF e.ret THEN r.m.h[r.ref].data.KycProvider
                              ELSE ZeroAddress])))

\* GetKycLevel and GetKycZone: the field of the human behind addr, 0 when
\* that account has no valid provider.
GetKycField(m, addr, field) ==
    With(HumanOf(m, addr), LAMBDA a :
        With(GetKycProvider(a.m, a.ret), LAMBDA p :
            IF p.ret = ZeroAddress \/ a.ret = ZeroAddress
            THEN [m |-> p.m, ret |-> 0]
            ELSE With(getStateObject(p.m, a.ret), LAMBDA r :
                     [m |-> r.m,
                      ret |-> IF r.ref # 0 THEN r.m.h[r.ref].data[field] ELSE 0])))

GetKycLevel(m, addr) == GetKycField(m, addr, "KycLevel")

GetKycZone(m, addr) == GetKycField(m, addr, "KycZone")

SetKycField(m, addr, field, value) ==
    With(m, LAMBDA s :
        With(GetOrNewStateObject(s, addr), LAMBDA r : obj_SetKyc(r.m, r.ref, field, value)))

SetKycLevel(m, addr, level) == SetKycField(m, addr, "KycLevel", level)

SetKycZone(m, addr, zone) == SetKycField(m, addr, "KycZone", zone)

SetKycProvider(m, addr, provider) == SetKycField(m, addr, "KycProvider", provider)

\* maxKycProviderCount is out of the model's reach: the list never fills.
AddKycProvider(m, addr) ==
    With(GetKycProviderCount(m), LAMBDA n :
        SetKycProviderCount(
            SetSlot(n.m, BigToHash(kycProviderStartHash, n.ret), addr),
            n.ret + 1))

\* RemoveKycProvider's loop from slot i on: the slots after the one found
\* move down by one.
RECURSIVE RemoveLoop(_, _, _, _, _)
RemoveLoop(m, addr, i, kycNum, found) ==
    IF i >= kycNum THEN [m |-> m, found |-> found]
    ELSE With(found \/ GetState(m, KycContractAddress,
                                BigToHash(kycProviderStartHash, i)).ret = addr,
              LAMBDA f :
                  RemoveLoop(
                      IF f /\ i < kycNum - 1
                      THEN SetSlot(m, BigToHash(kycProviderStartHash, i),
                                   GetState(m, KycContractAddress,
                                            BigToHash(kycProviderStartHash, i + 1)).ret)
                      ELSE m,
                      addr, i + 1, kycNum, f))

RemoveKycProvider(m, addr) ==
    With(GetKycProviderCount(m), LAMBDA n :
        IF n.ret = 0 THEN n.m
        ELSE With(RemoveLoop(n.m, addr, 0, n.ret, FALSE), LAMBDA l :
                 IF l.found THEN SetKycProviderCount(l.m, n.ret - 1) ELSE l.m))

\* stateObject.SetState of the reserved account for each <<key, value>> of
\* kvs, in order.
RECURSIVE SetSlots(_, _)
SetSlots(m, kvs) ==
    IF kvs = <<>> THEN m
    ELSE With(SetSlot(m, Head(kvs)[1], Head(kvs)[2]), LAMBDA m1 :
             SetSlots(m1, Tail(kvs)))

SetKycProviderProposol(m, addr, st, pt) ==
    With(GetKycProviderCount(m), LAMBDA n :
        SetSlots(n.m,
                 <<<<kycProposalAddressKey, addr>>,
                   <<kycProposalStartTimeKey, st>>,
                   <<kycProposalVoteTotalKey, n.ret>>,
                   <<kycProposalAlreadyVotedKey, pt>>>>
                 \o [i \in 1..n.ret |-> <<BigToHash(kycVoterStartHash, i - 1), 0>>]
                 \o [i \in 1..n.ret |-> <<BigToHash(kycVoteResultStartHash, i - 1), 0>>]))

\* [m, addr, time, total, type, yes, no]
GetKycProviderProposol(m) ==
    With(Reserved(m), LAMBDA r :
        [m |-> r.m,
         addr |-> Slot(r, kycProposalAddressKey),
         time |-> Slot(r, kycProposalStartTimeKey),
         total |-> Slot(r, kycProposalVoteTotalKey),
         type |-> Slot(r, kycProposalAlreadyVotedKey),
         yes |-> Cardinality({i \in 0..(Slot(r, kycProposalVoteTotalKey) - 1) :
                                 Slot(r, BigToHash(kycVoteResultStartHash, i)) = 1}),
         no |-> Cardinality({i \in 0..(Slot(r, kycProposalVoteTotalKey) - 1) :
                                Slot(r, BigToHash(kycVoteResultStartHash, i)) = 2})])

\* The vote slot the loop of SetVoteForKycProviderProposol stops at, when it
\* does not run to the end: the first that is free or holds addr.
VoteSlot(r, addr) ==
    Min({i \in 0..(Slot(r, kycProposalVoteTotalKey) - 1) :
             Slot(r, BigToHash(kycVoterStartHash, i)) \in {0, addr}})
\* A variant that records the vote in the first free slot without looking
\* for the address in the slots before it.
SetVoteForKycProviderProposol_Again(m, addr, nay) ==
    With(Reserved(m), LAMBDA r :
        IF {i \in 0..(Slot(r, kycProposalVoteTotalKey) - 1) :
                Slot(r, BigToHash(kycVoterStartHash, i)) = 0} = {}
        THEN [m |-> r.m, ret |-> FALSE]
        ELSE [m |-> SetSlots(r.m,
                             <<<<BigToHash(kycVoterStartHash, VoteSlot(r, 0)), addr>>,
                               <<BigToHash(kycVoteResultStartHash, VoteSlot(r, 0)),
                                 IF nay = 0 THEN 1 ELSE 2>>>>),
              ret |-> TRUE])

SetVoteForKycProviderProposol(m, addr, nay) ==
    With(Reserved(m), LAMBDA r :
        IF {i \in 0..(Slot(r, kycProposalVoteTotalKey) - 1) :
                Slot(r, BigToHash(kycVoterStartHash, i)) \in {0, addr}} = {}
        THEN [m |-> r.m, ret |-> FALSE]
        ELSE IF Slot(r, BigToHash(kycVoterStartHash, VoteSlot(r, addr))) # 0
             THEN [m |-> r.m, ret |-> FALSE]
             ELSE [m |-> SetSlots(r.m,
                                  <<<<BigToHash(kycVoterStartHash, VoteSlot(r, addr)), addr>>,
                                    <<BigToHash(kycVoteResultStartHash, VoteSlot(r, addr)),
                                      IF nay = 0 THEN 1 ELSE 2>>>>),
                   ret |-> TRUE])

\* The precompiled contracts of Byzantium are at the addresses 1 to 8.
IsPrecompiledAddress(addr) == addr = KycContractAddress \/ addr \in 1..8

\* The half of TxKycValidate's condition that is about one party.
KycValid(m, addr) ==
    KycProviderExists(m, addr).ret \/ IsPrecompiledAddress(addr)
        \/ GetKycLevel(m, addr).ret > 0

TxKycValidate(m, addr, dst, amount) ==
    IF amount = 0 THEN [m |-> m, ret |-> TRUE]
    ELSE With(GetKycProviderCount(m), LAMBDA n :
             [m |-> n.m,
              ret |-> \/ n.ret = 0
                      \/ /\ KycValid(n.m, addr)
                         /\ KycValid(n.m, dst) \/ dst = ZeroAddress])

GetDposTotalActivatedStake(m) ==
    GetState(m, KycContractAddress, dposTotalActivatedStakeKey)

SetDposTotalActivatedStake(m, val) == SetSlot(m, dposTotalActivatedStakeKey, val)

GetDposProducerCount(m) == GetState(m, KycContractAddress, dposProducerCountKey)

\* stateObject.setState, which appends nothing to the journal.
SetDposProducerCount(m, val) ==
    With(m, LAMBDA s :
        With(Reserved(s), LAMBDA r : obj_setState(r.m, r.ref, dposProducerCountKey, val)))

GetDposTopProducerElectedDone(m) ==
    GetState(m, KycContractAddress, dposTopProducerElectedDoneKey)

SetDposTopProducerElectedDone(m, val) == SetSlot(m, dposTopProducerElectedDoneKey, val)

dposProducerURLKey == 1

dposProducerURLKeyHigh == 5

dposProducerTotalVotesKey == 2

dposProducerActiveKey == 3

dposProducerLocationKey == 4

dposVoterStakingKey == 112

dposVoterLastVoteWeightKey == 113

dposVoterRefundAmountBeginKey == 128

dposVoterRefundReqestTimeBeginKey == 129

dposVoterCountKey == 144

dposVoterBpAddressBeginKey == 145

\* A url is the sequence of its 32-byte pieces, each a nonzero word: one
\* piece when it has at most 32 bytes, else two.
UpdateProducerTotalVotes(m, pb, stake) ==
    SetSlot(m, AddressToHashWithPrefix(pb, dposProducerTotalVotesKey), stake)

UpdateProducerActive(m, pb, val) ==
    SetSlot(m, AddressToHashWithPrefix(pb, dposProducerActiveKey), IF val THEN 1 ELSE 0)

UpdateProducerLocation(m, pb, val) ==
    SetSlot(m, AddressToHashWithPrefix(pb, dposProducerLocationKey), val)

\* RegisterProducer's branch for a new producer: the list slot and the count
\* are written by stateObject.setState.
RegisterNew(m, pb) ==
    With(GetDposProducerCount(m), LAMBDA n :
        With(Reserved(n.m), LAMBDA r :
            UpdateProducerActive(
                SetDposProducerCount(
                    obj_setState(r.m, r.ref,
                                 BigToHash(dposProducerAllStartKey, n.ret), pb),
                    n.ret + 1),
                pb, TRUE)))

\* RegisterProducer continued, oldhv being the url slot as it was.
Registered(m, pb, oldhv) == IF oldhv = 0 THEN RegisterNew(m, pb) ELSE m

RegisterProducer(m, pb, url) ==
    With(Reserved(m), LAMBDA r :
        Registered(
            IF Len(url) > 1
            THEN SetSlots(r.m,
                          <<<<AddressToHashWithPrefix(pb, dposProducerURLKey), url[1]>>,
                            <<AddressToHashWithPrefix(pb, dposProducerURLKeyHigh), url[2]>>>>)
            ELSE SetSlot(r.m, AddressToHashWithPrefix(pb, dposProducerURLKey),
                         IF url = <<>> THEN 0 ELSE url[1]),
            pb,
            Slot(r, AddressToHashWithPrefix(pb, dposProducerURLKey))))

\* nil *common.ProducerInfo
NoProducer ==
    [Owner |-> ZeroAddress, Url |-> <<>>, TotalVotes |-> 0, IsActive |-> FALSE,
     Location |-> 0, nil |-> TRUE]

GetProducerInfo(m, pb) ==
    With(Reserved(m), LAMBDA r :
        [m |-> r.m,
         ret |-> IF Slot(r, AddressToHashWithPrefix(pb, dposProducerURLKey)) = 0
                 THEN NoProducer
                 ELSE [Owner |-> pb,
                       Url |-> <<Slot(r, AddressToHashWithPrefix(pb, dposProducerURLKey))>>
                               \o (IF Slot(r, AddressToHashWithPrefix(
                                                 pb, dposProducerURLKeyHigh)) = 0
                                   THEN <<>>
                                   ELSE <<Slot(r, AddressToHashWithPrefix(
                                                     pb, dposProducerURLKeyHigh))>>),
                       TotalVotes |-> Slot(r, AddressToHashWithPrefix(
                                                 pb, dposProducerTotalVotesKey)),
                       IsActive |-> Slot(r, AddressToHashWithPrefix(
                                               pb, dposProducerActiveKey)) # 0,
                       Location |-> Slot(r, AddressToHashWithPrefix(
                                               pb, dposProducerLocationKey)),
                       nil |-> FALSE]])

\* pi != nil && pi.IsActive
ActiveProducer(m, pb) == GetProducerInfo(m, pb).ret.IsActive

\* The first n elements of s.
Take(s, n) == SubSeq(s, 1, IF n < Len(s) THEN n ELSE Len(s))

\* The addresses in the list slots i, i+1, ... below count that are nonzero
\* and active producers, in order.
RECURSIVE ActiveFrom(_, _, _)
ActiveFrom(m, i, count) ==
    IF i >= count THEN <<>>
    ELSE With(GetState(m, KycContractAddress, BigToHash(dposProducerAllStartKey, i)).ret,
              LAMBDA hv :
                  (IF hv # 0 /\ ActiveProducer(m, hv) THEN <<hv>> ELSE <<>>)
                      \o ActiveFrom(m, i + 1, count))

GetProducerList(m, startPos, number) ==
    IF startPos < 0 \/ number <= 0 THEN [m |-> m, ret |-> <<>>]
    ELSE With(GetDposProducerCount(m), LAMBDA n :
             [m |-> n.m, ret |-> Take(ActiveFrom(n.m, startPos, n.ret), number)])

\* The stake that activates the election, in the model's unit of stake.
DposActivatedStakeThreshold == 2

\* sort.Sort with ProducerInfoSorter.Less, the more votes first: for fewer
\* than 12 elements an insertion sort, which keeps equal elements in order.
RECURSIVE InsertInfo(_, _)
InsertInfo(sorted, pi) ==
    IF sorted = <<>> THEN <<pi>>
    ELSE IF pi.TotalVotes > sorted[Len(sorted)].TotalVotes
         THEN Append(InsertInfo(SubSeq(sorted, 1, Len(sorted) - 1), pi),
                     sorted[Len(sorted)])
         ELSE Append(sorted, pi)

RECURSIVE SortInfos(_)
SortInfos(infos) ==
    IF infos = <<>> THEN <<>>
    ELSE InsertInfo(SortInfos(SubSeq(infos, 1, Len(infos) - 1)), infos[Len(infos)])

\* stateObject.setState of the list slots 0, 1, ... with the owners of infos.
RECURSIVE SetTopSlots(_, _, _, _)
SetTopSlots(m, ref, infos, k) ==
    IF k >= Len(infos) THEN m
    ELSE With(obj_setState(m, ref, BigToHash(dposProducerAllStartKey, k),
                           infos[k + 1].Owner),
              LAMBDA m1 : SetTopSlots(m1, ref, infos, k + 1))

\* The infos of the producers of pbls that are active.
ActiveInfos(m, pbls) ==
    With(SelectSeq(pbls, LAMBDA pb : ActiveProducer(m, pb)), LAMBDA act :
        [i \in 1..Len(act) |-> GetProducerInfo(m, act[i]).ret])

\* The writes of the election: the owners of the sorted infos over the head
\* of the list, the count when it changed, and the elected-done flag.
Elected(m, ref, infos, oldproducerCount, producerCount) ==
    [m |-> SetDposTopProducerElectedDone(
               IF oldproducerCount # producerCount
               THEN SetDposProducerCount(SetTopSlots(m, ref, infos, 0), producerCount)
               ELSE SetTopSlots(m, ref, infos, 0),
               1),
     producerCount |-> producerCount]

\* The election of GetProducerTopList: [m, producerCount], the count being
\* lowered by one for every entry of pbls that is not an active producer.
Elect(m, ref, pbls, oldproducerCount) ==
    With(ActiveInfos(m, pbls), LAMBDA infolist :
        Elected(m, ref, SortInfos(infolist), oldproducerCount,
                oldproducerCount - (Len(pbls) - Len(infolist))))

\* The nonzero list slots below producerCount and below 21.
TopSlots(r, producerCount) ==
    SelectSeq([i \in 1..(IF producerCount < 21 THEN producerCount ELSE 21) |->
                  Slot(r, BigToHash(dposProducerAllStartKey, i - 1))],
              LAMBDA hv : hv # 0)

\* GetProducerTopList continued, e = [m, producerCount] being the machine
\* and the count after the election, if there was one.
TopListed(ref, e) == [m |-> e.m, ret |-> TopSlots([m |-> e.m, ref |-> ref], e.producerCount)]

GetProducerTopList(m) ==
    IF GetDposTotalActivatedStake(m).ret < DposActivatedStakeThreshold
    THEN [m |-> m, ret |-> <<>>]
    ELSE With(Reserved(m), LAMBDA r :
             TopListed(r.ref,
                 IF GetDposTopProducerElectedDone(m).ret = 0
                 THEN Elect(r.m, r.ref,
                            GetProducerList(m, 0, GetDposProducerCount(m).ret).ret,
                            GetDposProducerCount(m).ret)
                 ELSE [m |-> r.m, producerCount |-> GetDposProducerCount(m).ret]))

SetVoterStaking(m, myAddr, stake) ==
    SetSlot(m, AddressToHashWithPrefix(myAddr, dposVoterStakingKey), stake)

GetVoterStaking(m, myAddr) ==
    GetSlot(m, AddressToHashWithPrefix(myAddr, dposVoterStakingKey))

\* A list of more than 30 producers is not stored.
SetVoterProducers(m, myAddr, pbs) ==
    IF Len(pbs) > 30 THEN m
    ELSE
    SetSlots(Reserved(m).m,
             <<<<AddressToHashWithPrefix(myAddr, dposVoterCountKey), Len(pbs)>>>>
             \o [i \in 1..Len(pbs) |->
                    <<AddressToHashWithPrefix(myAddr, dposVoterBpAddressBeginKey + i - 1),
                      pbs[i]>>])

GetVoterProducers(m, myAddr) ==
    With(GetState(m, KycContractAddress,
                  AddressToHashWithPrefix(myAddr, dposVoterCountKey)),
         LAMBDA n :
             [m |-> n.m,
              ret |-> [i \in 1..n.ret |->
                          GetState(n.m, KycContractAddress,
                                   AddressToHashWithPrefix(
                                       myAddr, dposVoterBpAddressBeginKey + i - 1)).ret]])

SetRefundRequestInfo(m, myAddr, stake, requestTime) ==
    SetSlots(Reserved(m).m,
             <<<<AddressToHashWithPrefix(myAddr, dposVoterRefundAmountBeginKey), stake>>,
               <<AddressToHashWithPrefix(myAddr, dposVoterRefundReqestTimeBeginKey),
                 requestTime>>>>)

\* [m, stake, requestTime]
GetRefundRequestInfo(m, myAddr) ==
    With(Reserved(m), LAMBDA r :
        [m |-> r.m,
         stake |-> Slot(r, AddressToHashWithPrefix(myAddr, dposVoterRefundAmountBeginKey)),
         requestTime |->
             Slot(r, AddressToHashWithPrefix(myAddr, dposVoterRefundReqestTimeBeginKey))])

SetDposVoterLastVoteWeight(m, myAddr, weight) ==
    SetSlot(m, AddressToHashWithPrefix(myAddr, dposVoterLastVoteWeightKey), weight)

GetDposVoterLastVoteWeight(m, myAddr) ==
    GetState(m, KycContractAddress,
             AddressToHashWithPrefix(myAddr, dposVoterLastVoteWeightKey))

---------------------------------------------------------------------------
\* The native contract at KycContractAddress (core/vm).  A function of it is
\* [m, err], err being NoError or ErrOutOfGas.

NoError == "nil"

ErrOutOfGas == "out of gas"

KycMethodSet == 1

KycMethodProviderVoteProposal == 2

KycMethodVote == 3

DposMethodRegProds == 4

DposMethodRmvProds == 5

DposMethodAddStake == 6

DposMethodSubStake == 7

DposMethodProdsVote == 8

DposMethodRefund == 9

\* The level and zone of a provider.
ProviderKyc == 99999999

\* The seconds of a day: a proposal is open for one day, a refund is locked
\* for three.
DaySeconds == 86400

Done(m) == [m |-> m, err |-> NoError]

Rejected(m) == [m |-> m, err |-> ErrOutOfGas]

\* core.CanTransfer
CanTransfer(m, addr, amount) == GetBalance(m, addr).ret >= amount

kycSetForAddress(m, caller, address, level, zone) ==
    Done(SetKycLevel(SetKycZone(SetKycProvider(m, address, caller), address, zone),
                     address, level))

kycSetDefaultInfoForProvider(m, addr) ==
    SetKycLevel(SetKycZone(SetKycProvider(m, addr, addr), addr, ProviderKyc),
                addr, ProviderKyc)

\* The loop of setContractKycInfoAtCreate: from caller, by GetKycProvider, to
\* the first address that is not a contract.
RECURSIVE humanCaller(_, _)
humanCaller(m, caller) ==
    With(IsContractAddress(m, caller), LAMBDA c :
        IF c.ret
        THEN With(GetKycProvider(c.m, caller), LAMBDA p : humanCaller(p.m, p.ret))
        ELSE [m |-> c.m, ret |-> caller])

setContractKycInfoAtCreate(m, caller, address) ==
    With(humanCaller(m, caller), LAMBDA h :
        With(SetKycProvider(h.m, address, h.ret), LAMBDA s1 :
            With(GetKycZone(s1, caller), LAMBDA z :
                With(SetKycZone(z.m, address, z.ret), LAMBDA s2 :
                    With(GetKycLevel(s2, caller), LAMBDA l :
                        SetKycLevel(l.m, address, l.ret))))))

\* The creation of the contract at address by caller: the account is created,
\* its KYC fields are set from the caller, and the code the constructor
\* returned is stored.
Create(m, caller, address, code) ==
    With(CreateAccount(m, address), LAMBDA a :
        With(setContractKycInfoAtCreate(a, caller, address), LAMBDA k :
            SetCode(k, address, code)))

\* The proposal p is still in voting at time: it names an address, is not
\* expired, and not more than half of its voters voted yes.
InVoting(p, time) ==
    /\ p.addr # ZeroAddress
    /\ p.time + DaySeconds > time
    /\ p.yes <= p.total \div 2

\* ProposalStarted without the bootstrap rule: every proposal goes to a vote.
ProposalStarted_NoBootstrap(m, caller, time, addr, pt, curCount) ==
    IF InVoting(GetKycProviderProposol(m), time)
    THEN Rejected(m)
    ELSE Done(SetVoteForKycProviderProposol(
                  SetKycProviderProposol(m, addr, time, pt), caller, 0).m)
\* A variant that starts the proposal whether another one is open or not.
ProposalStarted_Always(m, caller, time, addr, pt, curCount) ==
    IF curCount < 2
    THEN Done(IF pt = 1 THEN kycSetDefaultInfoForProvider(AddKycProvider(m, addr), addr)
              ELSE RemoveKycProvider(m, addr))
    ELSE Done(SetVoteForKycProviderProposol(
                  SetKycProviderProposol(m, addr, time, pt), caller, 0).m)

\* kycStartProviderProposal once its checks have passed, with curCount
\* providers.
ProposalStarted(m, caller, time, addr, pt, curCount) ==
    IF curCount < 2
    THEN Done(IF pt = 1 THEN kycSetDefaultInfoForProvider(AddKycProvider(m, addr), addr)
              ELSE RemoveKycProvider(m, addr))
    ELSE IF InVoting(GetKycProviderProposol(m), time)
         THEN Rejected(m)
         ELSE Done(SetVoteForKycProviderProposol(
                       SetKycProviderProposol(m, addr, time, pt), caller, 0).m)

\* kycStartProviderProposal without the check that an address to add is not
\* a provider already.
kycStartProviderProposal_AddTwice(m, caller, time, addr, pt) ==
    IF IsContractAddress(m, addr).ret THEN Rejected(m)
    ELSE With(GetKycProviderCount(m), LAMBDA n :
             IF \/ pt # 1 /\ pt # 2
                \/ n.ret = 0 /\ pt = 2
                \/ ~KycProviderExists(n.m, caller).ret
                \/ pt = 2 /\ n.ret <= 0 /\ ~KycProviderExists(n.m, addr).ret
             THEN Rejected(n.m)
             ELSE ProposalStarted(n.m, caller, time, addr, pt, n.ret))

kycStartProviderProposal(m, caller, time, addr, pt) ==
    IF IsContractAddress(m, addr).ret THEN Rejected(m)
    ELSE With(GetKycProviderCount(m), LAMBDA n :
             IF \/ pt # 1 /\ pt # 2
                \/ n.ret = 0 /\ pt = 2
                \/ ~KycProviderExists(n.m, caller).ret
                \/ pt = 1 /\ n.ret > 0 /\ KycProviderExists(n.m, addr).ret
                \/ pt = 2 /\ n.ret <= 0 /\ ~KycProviderExists(n.m, addr).ret
             THEN Rejected(n.m)
             ELSE ProposalStarted(n.m, caller, time, addr, pt, n.ret))

\* Voted with the votes cast, yes and no alike, in the place of the yes votes.
Voted_AllVotes(m, p) ==
    IF GetKycProviderProposol(m).yes + GetKycProviderProposol(m).no > p.total \div 2
    THEN Done(SetKycProviderProposol(
                  IF p.type = 1 /\ ~KycProviderExists(m, p.addr).ret
                  THEN kycSetDefaultInfoForProvider(AddKycProvider(m, p.addr), p.addr)
                  ELSE IF p.type = 2 /\ KycProviderExists(m, p.addr).ret
                       THEN RemoveKycProvider(m, p.addr)
                       ELSE m,
                  ZeroAddress, 0, 0))
    ELSE Done(m)
\* A variant that applies the proposal when the yes votes reach half of the
\* eligible voters, rounded down.
Voted_HalfSuffices(m, p) ==
    IF GetKycProviderProposol(m).yes >= p.total \div 2
    THEN Done(SetKycProviderProposol(
                  IF p.type = 1 /\ ~KycProviderExists(m, p.addr).ret
                  THEN kycSetDefaultInfoForProvider(AddKycProvider(m, p.addr), p.addr)
                  ELSE IF p.type = 2 /\ KycProviderExists(m, p.addr).ret
                       THEN RemoveKycProvider(m, p.addr)
                       ELSE m,
                  ZeroAddress, 0, 0))
    ELSE Done(m)

\* kycVoteForProvider after the vote of the caller was recorded in m, p
\* being the proposal as it was before the vote.
Voted(m, p) ==
    IF GetKycProviderProposol(m).yes > p.total \div 2
    THEN Done(SetKycProviderProposol(
                  IF p.type = 1 /\ ~KycProviderExists(m, p.addr).ret
                  THEN kycSetDefaultInfoForProvider(AddKycProvider(m, p.addr), p.addr)
                  ELSE IF p.type = 2 /\ KycProviderExists(m, p.addr).ret
                       THEN RemoveKycProvider(m, p.addr)
                       ELSE m,
                  ZeroAddress, 0, 0))
    ELSE Done(m)

kycVoteForProvider(m, caller, time, nay) ==
    With(GetKycProviderProposol(m), LAMBDA p :
        IF InVoting(p, time)
        THEN With(SetVoteForKycProviderProposol(p.m, caller, nay), LAMBDA v :
                 IF ~v.ret THEN Rejected(v.m) ELSE Voted(v.m, p))
        ELSE Rejected(p.m))

dposRegisterProducer(m, from, url) ==
    Done(SetDposTopProducerElectedDone(RegisterProducer(m, from, url), 0))

dposUnregisterUnproducer(m, from) ==
    With(GetProducerInfo(m, from), LAMBDA pi :
        IF pi.ret.IsActive
        THEN Done(SetDposTopProducerElectedDone(UpdateProducerActive(pi.m, from, FALSE), 0))
        ELSE Done(pi.m))

block_timestamp_epoch == 1534154327

RECURSIVE Pow2(_)
Pow2(n) == IF n <= 0 THEN 1 ELSE 2 * Pow2(n - 1)

\* Go's integer division, which truncates toward zero.
Quo(a, b) == IF a >= 0 THEN a \div b ELSE -((-a) \div b)

\* big.Int.Exp with a modulus of zero is the plain power, and 1 when the
\* exponent is not positive.
calcVoteWeight(value, ct) ==
    value * Pow2(Quo(Quo(ct - block_timestamp_epoch, 24 * 3600), 52))

\* common.BigToHash keeps the absolute value of the number.
Abs(x) == IF x < 0 THEN -x ELSE x

\* doChangeProducerVoteingWeight's loop over the producers the voter voted.
\* The code dereferences the info of every producer of the list; it is nil
\* for a producer that registered again with the empty url: NilVoted tells
\* it, and the specification that lets producers do so ends the run there.
RECURSIVE ChangeVotes(_, _, _, _)
ChangeVotes(m, pbs, lastVw, vw) ==
    IF pbs = <<>> THEN m
    ELSE With(UpdateProducerTotalVotes(
                  m, Head(pbs),
                  Abs(GetProducerInfo(m, Head(pbs)).ret.TotalVotes - lastVw + vw)),
              LAMBDA m1 : ChangeVotes(m1, Tail(pbs), lastVw, vw))

\* A variant that moves the votes of the listed producers and leaves the last
\* vote weight of the voter as it was.
doChangeProducerVoteingWeight_KeepWeight(m, from, newValue, ct) ==
    ChangeVotes(m, GetVoterProducers(m, from).ret,
                GetDposVoterLastVoteWeight(m, from).ret,
                calcVoteWeight(newValue, ct))

doChangeProducerVoteingWeight(m, from, newValue, ct) ==
    SetDposVoterLastVoteWeight(
        ChangeVotes(m, GetVoterProducers(m, from).ret,
                    GetDposVoterLastVoteWeight(m, from).ret,
                    calcVoteWeight(newValue, ct)),
        from, calcVoteWeight(newValue, ct))

\* dposIncStake from SetVoterStaking on.
StakeAdded(m, time, from, value, newValue, lastVw) ==
    Done(SetDposTopProducerElectedDone(
             With(doChangeProducerVoteingWeight(SetVoterStaking(m, from, newValue),
                                                from, newValue, time),
                  LAMBDA m1 :
                      IF lastVw <= 0
                      THEN SetDposTotalActivatedStake(
                               m1, GetDposTotalActivatedStake(m1).ret + value)
                      ELSE m1),
             0))

\* dposIncStake paying the contract before it checks the balance of the payer.
dposIncStake_PayFirst(m, time, from, value) ==
    IF value <= 0 THEN Rejected(m)
    ELSE With(GetRefundRequestInfo(GetVoterStaking(m, from).m, from), LAMBDA rq :
             IF rq.stake >= value
             THEN StakeAdded(SetRefundRequestInfo(rq.m, from, rq.stake - value,
                                                  rq.requestTime),
                             time, from, value,
                             GetVoterStaking(m, from).ret + value,
                             GetDposVoterLastVoteWeight(m, from).ret)
             ELSE With(AddBalance(rq.m, KycContractAddress, value - rq.stake), LAMBDA paid :
                      IF \/ ~CanTransfer(paid, from, value - rq.stake)
                         \/ ~TxKycValidate(paid, from, KycContractAddress,
                                           value - rq.stake).ret
                      THEN Rejected(paid)
                      ELSE StakeAdded(
                               SubBalance(SetRefundRequestInfo(paid, from, 0, 0),
                                          from, value - rq.stake),
                               time, from, value,
                               GetVoterStaking(m, from).ret + value,
                               GetDposVoterLastVoteWeight(m, from).ret)))

\* dposIncStake taking the whole value from the balance of the caller, the
\* pending refund left as it is.
dposIncStake_NoDrain(m, time, from, value) ==
    IF value <= 0 THEN Rejected(m)
    ELSE IF \/ ~CanTransfer(m, from, value)
            \/ ~TxKycValidate(m, from, KycContractAddress, value).ret
         THEN Rejected(m)
         ELSE StakeAdded(SubBalance(AddBalance(m, KycContractAddress, value), from, value),
                         time, from, value,
                         GetVoterStaking(m, from).ret + value,
                         GetDposVoterLastVoteWeight(m, from).ret)

dposIncStake(m, time, from, value) ==
    IF value <= 0 THEN Rejected(m)
    ELSE With(GetRefundRequestInfo(GetVoterStaking(m, from).m, from), LAMBDA rq :
             IF rq.stake >= value
             THEN StakeAdded(SetRefundRequestInfo(rq.m, from, rq.stake - value,
                                                  rq.requestTime),
                             time, from, value,
                             GetVoterStaking(m, from).ret + value,
                             GetDposVoterLastVoteWeight(m, from).ret)
             ELSE IF \/ ~CanTransfer(rq.m, from, value - rq.stake)
                     \/ ~TxKycValidate(rq.m, from, KycContractAddress,
                                       value - rq.stake).ret
                  THEN Rejected(rq.m)
                  ELSE StakeAdded(
                           SubBalance(
                               AddBalance(SetRefundRequestInfo(rq.m, from, 0, 0),
                                          KycContractAddress, value - rq.stake),
                               from, value - rq.stake),
                           time, from, value,
                           GetVoterStaking(m, from).ret + value,
                           GetDposVoterLastVoteWeight(m, from).ret))

\* dposDecStake once its checks have passed, oldValue being the stake.
StakeRemoved(m, time, from, value, oldValue) ==
    With(doChangeProducerVoteingWeight(SetVoterStaking(m, from, oldValue - value),
                                       from, oldValue - value, time),
         LAMBDA m1 :
             Done(SetDposTopProducerElectedDone(
                      SetRefundRequestInfo(m1, from,
                                           GetRefundRequestInfo(m1, from).stake + value,
                                           time),
                      0)))

\* dposDecStake without the check of the total activated stake.
dposDecStake_NoThreshold(m, time, from, value) ==
    IF value <= 0 THEN Rejected(m)
    ELSE With(GetVoterStaking(m, from), LAMBDA old :
             IF old.ret < value THEN Rejected(old.m)
             ELSE StakeRemoved(old.m, time, from, value, old.ret))

dposDecStake(m, time, from, value) ==
    IF value <= 0 THEN Rejected(m)
    ELSE IF GetDposTotalActivatedStake(m).ret < DposActivatedStakeThreshold
         THEN Rejected(m)
         ELSE With(GetVoterStaking(m, from), LAMBDA old :
                  IF old.ret < value THEN Rejected(old.m)
                  ELSE StakeRemoved(old.m, time, from, value, old.ret))

\* dposVoteForProducer storing the submitted addresses as they are.
dposVoteForProducer_NoFilter(m, time, from, tos) ==
    With(doChangeProducerVoteingWeight(SetDposTopProducerElectedDone(m, 0),
                                       from, 0, time),
         LAMBDA m1 :
             With(SetVoterProducers(m1, from, tos),
                  LAMBDA m2 :
                      Done(doChangeProducerVoteingWeight(
                               m2, from, GetVoterStaking(m2, from).ret, time))))

dposVoteForProducer(m, time, from, tos) ==
    With(doChangeProducerVoteingWeight(SetDposTopProducerElectedDone(m, 0),
                                       from, 0, time),
         LAMBDA m1 :
             With(SetVoterProducers(m1, from,
                                    SelectSeq(tos, LAMBDA pb : ActiveProducer(m1, pb))),
                  LAMBDA m2 :
                      Done(doChangeProducerVoteingWeight(
                               m2, from, GetVoterStaking(m2, from).ret, time))))

\* dposRefund paying when the lock period has just passed.
dposRefund_AtLock(m, time, from) ==
    With(GetRefundRequestInfo(m, from), LAMBDA rq :
        IF time >= rq.requestTime + DaySeconds * 3
        THEN IF \/ ~CanTransfer(rq.m, KycContractAddress, rq.stake)
                \/ ~TxKycValidate(rq.m, KycContractAddress, from, rq.stake).ret
             THEN Rejected(rq.m)
             ELSE Done(SubBalance(
                           AddBalance(SetRefundRequestInfo(rq.m, from, 0, 0),
                                      from, rq.stake),
                           KycContractAddress, rq.stake))
        ELSE Rejected(rq.m))

\* dposRefund paying without clearing the refund record.
dposRefund_KeepRecord(m, time, from) ==
    With(GetRefundRequestInfo(m, from), LAMBDA rq :
        IF time > rq.requestTime + DaySeconds * 3
        THEN IF \/ ~CanTransfer(rq.m, KycContractAddress, rq.stake)
                \/ ~TxKycValidate(rq.m, KycContractAddress, from, rq.stake).ret
             THEN Rejected(rq.m)
             ELSE Done(SubBalance(AddBalance(rq.m, from, rq.stake),
                                  KycContractAddress, rq.stake))
        ELSE Rejected(rq.m))

\* stake != common.Big0 compares two pointers, and stake is a new big.Int:
\* the comparison is always true.
dposRefund(m, time, from) ==
    With(GetRefundRequestInfo(m, from), LAMBDA rq :
        IF time > rq.requestTime + DaySeconds * 3
        THEN IF \/ ~CanTransfer(rq.m, KycContractAddress, rq.stake)
                \/ ~TxKycValidate(rq.m, KycContractAddress, from, rq.stake).ret
             THEN Rejected(rq.m)
             ELSE Done(SubBalance(
                           AddBalance(SetRefundRequestInfo(rq.m, from, 0, 0),
                                      from, rq.stake),
                           KycContractAddress, rq.stake))
        ELSE Rejected(rq.m))

\* The gas a call of the contract costs.
KycGas == 3000

\* The input of a call: short when it has fewer than 4 bytes, else the
\* function id and the arguments decoded from the bytes after it.
Input(funcid, address, level, zone, pt, nay, url, value, tos) ==
    [short |-> FALSE, funcid |-> funcid, address |-> address, level |-> level,
     zone |-> zone, pt |-> pt, nay |-> nay, url |-> url, value |-> value, tos |-> tos]

\* The functions that only a provider may call, e = [m, ret] being
\* KycProviderExists of the caller.
ProviderOnly(e, caller, time, input) ==
    IF ~e.ret THEN Rejected(e.m)
    ELSE CASE input.funcid = KycMethodSet ->
                  kycSetForAddress(e.m, caller, input.address, input.level, input.zone)
           [] input.funcid = KycMethodProviderVoteProposal ->
                  kycStartProviderProposal(e.m, caller, time, input.address, input.pt)
           [] input.funcid = KycMethodVote ->
                  kycVoteForProvider(e.m, caller, time, input.nay)

kycExecute(m, caller, time, gas, input) ==
    IF input.short THEN Done(m)
    ELSE IF gas < KycGas THEN Rejected(m)
    ELSE IF IsContractAddress(m, caller).ret THEN Rejected(m)
    ELSE CASE input.funcid \in {KycMethodSet, KycMethodProviderVoteProposal, KycMethodVote} ->
                  ProviderOnly(KycProviderExists(m, caller), caller, time, input)
           [] input.funcid = DposMethodRegProds ->
                  dposRegisterProducer(m, caller, input.url)
           [] input.funcid = DposMethodRmvProds ->
                  dposUnregisterUnproducer(m, caller)
           [] input.funcid = DposMethodAddStake ->
                  dposIncStake(m, time, caller, input.value)
           [] input.funcid = DposMethodSubStake ->
                  dposDecStake(m, time, caller, input.value)
           [] input.funcid = DposMethodProdsVote ->
                  dposVoteForProducer(m, time, caller, input.tos)
           [] input.funcid = DposMethodRefund ->
                  dposRefund(m, time, caller)
           [] OTHER -> Rejected(m)

---------------------------------------------------------------------------
\* SpecGov: one StateDB, created fresh, driven by calls of the native contract
\* (kycExecute, one action per function id), by AddBalance and SetCode on the
\* callers, by Snapshot and RevertToSnapshot of a valid id, by
\* GetProducerTopList, and by the clock of the chain (now is evm.Time).
\*
\* hist.marks maps the id a Snapshot returned to what the accessors of the
\* producers returned then; hist.err is what the last call of the contract
\* returned.

GMaxOps == 4

GMaxTicks == 1

\* The callers, and the urls they register: one of one piece, one of two.
GAddrs == {11, 12}

Urls == {<<1>>, <<1, 2>>}

\* What the accessors of the producers return.
GovObserve(m) ==
    [GetDposProducerCount |-> GetDposProducerCount(m).ret,
     GetProducerList      |-> GetProducerList(m, 0, 30).ret,
     GetProducerInfo      |-> [a \in GAddrs |-> GetProducerInfo(m, a).ret],
     GetProducerTopList   |-> GetProducerTopList(m).ret]

\* The storage of the object at ref: its slots that are not zero.
Slots(m, ref) ==
    With(DOMAIN m.h[ref].cachedStorage \cup DOMAIN m.h[ref].data.Root, LAMBDA keys :
        [k \in {x \in keys : obj_GetState(m, ref, x).ret # 0} |->
            obj_GetState(m, ref, k).ret])

\* The balance, nonce, KYC fields and storage of every account.
AccountValues(m, addr) ==
    With(getStateObject(m, addr), LAMBDA r :
        IF r.ref = 0
        THEN [Balance |-> 0, Nonce |-> 0, KycLevel |-> 0, KycZone |-> 0,
              KycProvider |-> ZeroAddress, Storage |-> EmptyMap]
        ELSE [Balance |-> r.m.h[r.ref].data.Balance,
              Nonce |-> r.m.h[r.ref].data.Nonce,
              KycLevel |-> r.m.h[r.ref].data.KycLevel,
              KycZone |-> r.m.h[r.ref].data.KycZone,
              KycProvider |-> r.m.h[r.ref].data.KycProvider,
              Storage |-> Slots(r.m, r.ref)])

Values(m) == [a \in GAddrs \cup {KycContractAddress} |-> AccountValues(m, a)]

GInit ==
    /\ heap = EmptyMap
    /\ sdb = [i \in {1} |-> New(EmptyMap, {}, {})]
    /\ store = {}
    /\ last = Call("New", 1, 0, -1, TRUE, FALSE)
    /\ hist = [max |-> GMaxOps, calls |-> 0, marks |-> EmptyMap, err |-> NoError,
               ticks |-> 0]
    /\ now = block_timestamp_epoch
    /\ thr = <<>>

\* The step of a call of the contract by caller that returned r = [m, err].
Executed(caller, funcid, r) ==
    /\ Goto(1, r.m)
    /\ last' = Call("kycExecute", 1, caller, funcid, r.err = NoError, FALSE)
    /\ hist' = [hist EXCEPT !.calls = @ + 1, !.err = r.err]
    /\ UNCHANGED <<now, thr>>

Execute(caller, gas, input) ==
    \E r \in {kycExecute(M(1), caller, now, gas, input)} :
        Executed(caller, input.funcid, r)

GKycSet ==
    \E caller \in GAddrs :
        /\ CanCall
        /\ Execute(caller, KycGas, Input(KycMethodSet, 12, 1, 1, 0, 0, <<>>, 0, <<>>))

GStartProposal ==
    \E caller \in GAddrs, address \in GAddrs, pt \in 1..2 :
        /\ CanCall
        /\ Execute(caller, KycGas,
                   Input(KycMethodProviderVoteProposal, address, 0, 0, pt, 0, <<>>, 0, <<>>))

GVote ==
    \E caller \in GAddrs, nay \in 0..1 :
        /\ CanCall
        /\ Execute(caller, KycGas, Input(KycMethodVote, 0, 0, 0, 0, nay, <<>>, 0, <<>>))

GRegProds ==
    \E caller \in GAddrs, url \in Urls :
        /\ CanCall
        /\ Execute(caller, KycGas, Input(DposMethodRegProds, 0, 0, 0, 0, 0, url, 0, <<>>))

GRmvProds ==
    \E caller \in GAddrs :
        /\ CanCall
        /\ Execute(caller, KycGas, Input(DposMethodRmvProds, 0, 0, 0, 0, 0, <<>>, 0, <<>>))

GAddStake ==
    \E caller \in GAddrs, value \in 1..DposActivatedStakeThreshold :
        /\ CanCall
        /\ Execute(caller, KycGas,
                   Input(DposMethodAddStake, 0, 0, 0, 0, 0, <<>>, value, <<>>))

GSubStake ==
    \E caller \in GAddrs, value \in 0..1 :
        /\ CanCall
        /\ Execute(caller, KycGas,
                   Input(DposMethodSubStake, 0, 0, 0, 0, 0, <<>>, value, <<>>))

GProdsVote ==
    \E caller \in GAddrs, tos \in {<<11>>, <<11, 12>>} :
        /\ CanCall
        /\ Execute(caller, KycGas, Input(DposMethodProdsVote, 0, 0, 0, 0, 0, <<>>, 0, tos))

GRefund ==
    \E caller \in GAddrs :
        /\ CanCall
        /\ Execute(caller, KycGas, Input(DposMethodRefund, 0, 0, 0, 0, 0, <<>>, 0, <<>>))

\* A call with too little gas, of a function id the contract has not, or of
\* a proposal of a type that is neither 1 nor 2.
GRejected ==
    \E funcid \in {DposMethodRegProds, KycMethodProviderVoteProposal,
                    DposMethodRefund + 1} :
        /\ CanCall
        /\ Execute(11, IF funcid = DposMethodRegProds THEN 0 ELSE KycGas,
                   Input(funcid, 12, 0, 0, 3, 0, <<1>>, 0, <<>>))

\* A transfer of value to the contract: an input of fewer than 4 bytes.
GTransfer ==
    \E caller \in GAddrs :
        /\ CanCall
        /\ Executed(caller, 0, kycExecute(M(1), caller, now, KycGas, [short |-> TRUE]))

\* The step of a call of the StateDB that returned r = [m, ret].
GReturned(op, r) ==
    /\ Returned(op, r)
    /\ hist' = [hist EXCEPT !.calls = @ + 1]
    /\ UNCHANGED <<now, thr>>

GAddBalance ==
    \E a \in GAddrs :
        /\ CanCall
        /\ GReturned(Op("AddBalance", a, NoKey, DposActivatedStakeThreshold, FALSE),
                     Apply(M(1), Op("AddBalance", a, NoKey,
                                    DposActivatedStakeThreshold, FALSE)))

\* The second caller becomes a contract.
GSetCode ==
    /\ CanCall
    /\ GReturned(Op("SetCode", 12, NoKey, 1, FALSE),
                 Apply(M(1), Op("SetCode", 12, NoKey, 1, FALSE)))

GGetProducerTopList ==
    /\ CanCall
    /\ GReturned(Op("GetProducerTopList", 0, NoKey, 0, FALSE),
                 GetProducerTopList(M(1)))

\* The step of the Snapshot that returned r = [m, ret].
GSnapshotted(r) ==
    /\ Goto(1, r.m)
    /\ last' = Call("Snapshot", 1, 0, r.ret, TRUE, FALSE)
    /\ hist' = [hist EXCEPT !.calls = @ + 1,
                            !.marks = Put(@, r.ret, GovObserve(M(1)))]
    /\ UNCHANGED <<now, thr>>

GSnapshot ==
    /\ CanCall
    /\ sdb[1].nextRevisionId < MaxSnapshots
    /\ GSnapshotted(Snapshot(M(1)))

\* The step of the RevertToSnapshot(id) that returned r = [m, panic].
GReverted(id, r) ==
    /\ Goto(1, r.m)
    /\ last' = Call("RevertToSnapshot", 1, 0, id, ~r.panic, r.panic)
    /\ hist' = [hist EXCEPT !.calls = @ + 1]
    /\ UNCHANGED <<now, thr>>

GRevertToSnapshot ==
    \E id \in RevisionIds(sdb[1].validRevisions) :
        /\ CanCall
        /\ GReverted(id, RevertToSnapshot(M(1), id))

\* The chain moves on by more than the three days a refund is locked for,
\* and so by more than the day a proposal is open for.  The time of the chain
\* matters to nothing else in these few days: it moves on after a stake was
\* withdrawn or a proposal started.
GTick ==
    /\ ~last.panic
    /\ hist.ticks < GMaxTicks
    /\ last.op = "kycExecute"
    /\ last.id \in {DposMethodSubStake, KycMethodProviderVoteProposal}
    /\ last.ok
    /\ now' = now + DaySeconds * 3 + 1
    /\ hist' = [hist EXCEPT !.ticks = @ + 1]
    /\ last' = Call("Tick", 0, 0, -1, TRUE, FALSE)
    /\ UNCHANGED <<heap, sdb, store, thr>>

GNext ==
    \/ GKycSet
    \/ GStartProposal
    \/ GVote
    \/ GRegProds
    \/ GRmvProds
    \/ GAddStake
    \/ GSubStake
    \/ GProdsVote
    \/ GRefund
    \/ GRejected
    \/ GTransfer
    \/ GAddBalance
    \/ GSetCode
    \/ GGetProducerTopList
    \/ GSnapshot
    \/ GRevertToSnapshot
    \/ GTick

SpecGov == GInit /\ [][GNext]_vars

\* C6 (governance writes are journaled): after a RevertToSnapshot(id) the
\* accessors GetDposProducerCount, GetProducerList, GetProducerInfo and
\* GetProducerTopList return what they returned when Snapshot returned id.
C6_GovernanceRollback ==
    [][last'.op = "RevertToSnapshot" =>
           GovObserve(MNext(1)) = hist.marks[last'.id]]_vars

\* A revert after which the producer count is not what it was at the snapshot.
C6_Witness ==
    /\ last.op = "RevertToSnapshot"
    /\ GetDposProducerCount(M(1)).ret # hist.marks[last.id].GetDposProducerCount

\* C7 (a rejected call writes nothing): when kycExecute returns ErrOutOfGas,
\* the balance, nonce, KYC fields and storage slots of every account are what
\* they were before the call.
C7_RejectedWritesNothing ==
    [][(last'.op = "kycExecute" /\ hist'.err = ErrOutOfGas) =>
           Values(MNext(1)) = Values(M(1))]_vars

\* A call was rejected by a check of a function of the contract, on a state
\* in which the reserved account holds governance data and balance.
C7_Witness ==
    /\ last.op = "kycExecute"
    /\ hist.err = ErrOutOfGas
    /\ last.id \in {KycMethodProviderVoteProposal, DposMethodAddStake, DposMethodSubStake}
    /\ AccountValues(M(1), KycContractAddress).Storage # EmptyMap
    /\ AccountValues(M(1), KycContractAddress).Balance > 0

---------------------------------------------------------------------------
\* SpecCarry: the StateDB of SpecFinalise (instance 1), and at any time
\* c := s.Copy() (instance 2) and cc := c.Copy() (instance 3), as
\* TestCopyOfCopy makes them.  The copies end the run: no mutating call
\* follows them.

YInit == FreshInit(FALSE, FMaxOps)

\* The step of the two copies, c = [h, state] being s.Copy() and cc = [h,
\* state] being c.Copy().
YCopied(c, cc) ==
    /\ sdb' = [i \in {1, 2, 3} |-> IF i = 1 THEN sdb[1]
                                   ELSE IF i = 2 THEN c.state ELSE cc.state]
    /\ heap' = GC(cc.h, [i \in {1, 2, 3} |-> IF i = 1 THEN sdb[1]
                                             ELSE IF i = 2 THEN c.state ELSE cc.state])

YCopies(c) == YCopied(c, Copy(c.h, c.state))

YCopy ==
    /\ ~last.panic
    /\ last.op # "Copy"
    /\ YCopies(Copy(heap, sdb[1]))
    /\ last' = Call("Copy", 1, 0, -1, TRUE, FALSE)
    /\ hist' = [hist EXCEPT !.max = hist.calls]
    /\ UNCHANGED <<store, now, thr>>

YNext ==
    \/ FNext
    \/ YCopy

SpecCarry == YInit /\ [][YNext]_vars

\* C11 (Copy carries every modification): immediately after c := s.Copy() and
\* cc := c.Copy(), every read accessor returns for every account the same
\* value on c as on s, and the same value on cc as on s, whether the
\* modifications of s are still in its journal, were finalised or were
\* committed.
C11_CopyCarries ==
    [][last'.op = "Copy" =>
           /\ Observables(MNext(2)).accounts = Observables(MNext(1)).accounts
           /\ Observables(MNext(3)).accounts = Observables(MNext(1)).accounts]_vars

\* The same of a StateDB that was never committed: what holds of Copy.
C11_CarriesUncommitted ==
    [][(last'.op = "Copy" /\ ~hist.committed) =>
           /\ Observables(MNext(2)).accounts = Observables(MNext(1)).accounts
           /\ Observables(MNext(3)).accounts = Observables(MNext(1)).accounts]_vars

\* The copies were made of a StateDB whose account was touched, finalised
\* and committed, and the account exists in the copy and not in the source.
C11_Witness ==
    /\ last.op = "Copy"
    /\ hist.committed
    /\ sdb[1].journal = newJournal
    /\ ~Exist(M(1), 11).ret
    /\ Exist(M(2), 11).ret
    /\ Exist(M(3), 11).ret

---------------------------------------------------------------------------
\* SpecIdentity: one StateDB, created fresh, on which humans call the native
\* contract to set the KYC fields of an address and to add or remove a
\* provider, and on which humans and contracts create contracts.
\*
\* The fields are set of the human 11 and of the contract 13, and 12 is the
\* caller that proposes providers.
\*
\* hist.creator maps a created contract to its creator and to the level the
\* creator reported then; hist.assigned are the contracts whose KYC fields a
\* call of the native contract has set since they were created.

IMaxOps == 4

IHumans == {11, 12}

IContracts == {13, 14}

IInit ==
    /\ heap = EmptyMap
    /\ sdb = [i \in {1} |-> New(EmptyMap, {}, {})]
    /\ store = {}
    /\ last = Call("New", 1, 0, -1, TRUE, FALSE)
    /\ hist = [max |-> IMaxOps, calls |-> 0, err |-> NoError, creator |-> EmptyMap,
               assigned |-> {}]
    /\ now = block_timestamp_epoch
    /\ thr = <<>>

\* The step of a call by caller about address that returned r = [m, err].
IReturned(op, caller, address, r, creator, assigned) ==
    /\ Goto(1, r.m)
    /\ last' = Call(op, 1, caller, address, r.err = NoError, FALSE)
    /\ hist' = [hist EXCEPT !.calls = @ + 1, !.err = r.err, !.creator = creator,
                            !.assigned = assigned]
    /\ UNCHANGED <<now, thr>>

IKycSetDone(caller, address, r) ==
    IReturned("kycSet", caller, address, r, hist.creator,
              IF r.err = NoError /\ address \in IContracts
              THEN hist.assigned \cup {address} ELSE hist.assigned)

IKycSet ==
    \E caller \in IHumans, address \in {11, 13}, level \in 1..2 :
        /\ CanCall
        /\ IKycSetDone(caller, address,
                       kycExecute(M(1), caller, now, KycGas,
                                  Input(KycMethodSet, address, level, level + 2,
                                        0, 0, <<>>, 0, <<>>)))

IStartProposal ==
    \E caller \in {12}, address \in IHumans, pt \in 1..2 :
        /\ CanCall
        /\ IReturned("kycStartProviderProposal", caller, address,
                     kycExecute(M(1), caller, now, KycGas,
                                Input(KycMethodProviderVoteProposal, address, 0, 0,
                                      pt, 0, <<>>, 0, <<>>)),
                     hist.creator, hist.assigned)

\* What the accessors of the KYC fields return of addr.
KycOf(m, addr) ==
    [Level |-> GetKycLevel(m, addr).ret, Zone |-> GetKycZone(m, addr).ret,
     Provider |-> GetKycProvider(m, addr).ret]

\* A contract is created once, at an address that has no code, by a human or
\* by a contract that was created.
ICreate ==
    \E caller \in IHumans \cup DOMAIN hist.creator, address \in IContracts :
        /\ CanCall
        /\ address \notin DOMAIN hist.creator
        /\ IReturned("Create", caller, address,
                     Done(Create(M(1), caller, address, 1)),
                     Put(hist.creator, address,
                         [by |-> caller, was |-> KycOf(M(1), caller)]),
                     hist.assigned \ {address})

INext ==
    \/ IKycSet
    \/ IStartProposal
    \/ ICreate

SpecIdentity == IInit /\ [][INext]_vars

\* The contracts a human created whose KYC fields no call has set since.
Inheriting ==
    {c \in DOMAIN hist.creator : hist.creator[c].by \in IHumans /\ c \notin hist.assigned}

\* C12 (KYC inheritance is derived, not copied): a contract that a human H
\* created, and whose KYC fields no call has set, reports by GetKycLevel and
\* GetKycZone the level and the zone that H reports now, whatever H reported
\* when the contract was created.
C12_KycInheritance ==
    \A c \in Inheriting :
        /\ IsContractAddress(M(1), c).ret
        /\ GetKycLevel(M(1), c).ret = GetKycLevel(M(1), hist.creator[c].by).ret
        /\ GetKycZone(M(1), c).ret = GetKycZone(M(1), hist.creator[c].by).ret

\* The level of the human 11 was set after 11 created the contract 13, and 13
\* reports the new level and not the one of its creation.
C12_Witness ==
    /\ 13 \in Inheriting
    /\ hist.creator[13].by = 11
    /\ hist.creator[13].was.Level = 1
    /\ GetKycLevel(M(1), 11).ret = 2
    /\ GetKycLevel(M(1), 13).ret = 2
    /\ GetKycZone(M(1), 13).ret = 4

\* The contracts created by a contract that a human created, no call having
\* set the KYC fields of either.
Grandchildren ==
    {c \in DOMAIN hist.creator :
        /\ hist.creator[c].by \in Inheriting
        /\ c \notin hist.assigned}

\* The human at the end of the creation chain of the contract c.
HumanBehind(c) == hist.creator[hist.creator[c].by].by

\* C13 (creator resolution walks the whole creation chain): for a contract C2
\* created by a contract C1 that a human H created, the creator recorded for
\* C2 is H, and GetKycLevel, GetKycZone and GetKycProvider return of C2 what
\* they return of H.
C13_CreatorChain ==
    \A c \in Grandchildren :
        /\ GetContractCreator(M(1), c).ret = HumanBehind(c)
        /\ KycOf(M(1), c) = KycOf(M(1), HumanBehind(c))

\* The provider 12 set the fields of the human 11, 11 created the contract
\* 13 and 13 created the contract 14: the creator recorded for 14 is the
\* provider 12, and 14 reports the level of 12 and not the level of 11.
C13_Witness ==
    /\ 14 \in Grandchildren
    /\ HumanBehind(14) = 11
    /\ GetKycProvider(M(1), 11).ret = 12
    /\ GetContractCreator(M(1), 14).ret = 12
    /\ GetKycLevel(M(1), 11).ret \in 1..2
    /\ GetKycLevel(M(1), 14).ret = ProviderKyc

---------------------------------------------------------------------------
\* SpecProviders: one StateDB on which the addresses of PAddrs call the three
\* functions of the native contract that only a provider may call, while the
\* clock of the chain moves on by a day at a time.  The run begins with no
\* provider at all, or with the PProviders providers 11, 12, ... that the
\* bootstrap rule and decided proposals have added, and it ends with the
\* first call that is rejected.  11 and 16 propose, 12, 13, 14 and 16 vote.
\*
\* hist.input is the input of the last call, hist.total and hist.cast are the eligible voters of the
\* last proposal that went to a vote and the votes cast on it in order (0 is
\* yes), the proposer's included.

PMaxOps == 5

PMaxTicks == 1

PProviders == 5

PAddrs == 11..16

\* The StateDB after the providers 11 .. 10 + n were added.
RECURSIVE Seeded(_)
Seeded(n) ==
    IF n = 0 THEN Fresh
    ELSE With(Seeded(n - 1), LAMBDA m :
             kycSetDefaultInfoForProvider(AddKycProvider(m, 10 + n), 10 + n))

PInit ==
    \E n \in {0, PProviders} :
        /\ heap = Seeded(n).h
        /\ sdb = [i \in {1} |-> Seeded(n).s]
        /\ store = {}
        /\ last = Call("New", 1, 0, -1, TRUE, FALSE)
        /\ hist = [max |-> PMaxOps, calls |-> 0, err |-> NoError, ticks |-> 0,
                   input |-> Input(0, 0, 0, 0, 0, 0, <<>>, 0, <<>>),
                   total |-> 0, cast |-> <<>>]
        /\ now = block_timestamp_epoch
        /\ thr = <<>>

\* The step of a call of the contract by caller that returned r = [m, err],
\* total and cast being hist.total and hist.cast after it.
PReturned(caller, input, r, total, cast) ==
    /\ Goto(1, r.m)
    /\ last' = Call("kycExecute", 1, caller, input.funcid, r.err = NoError, FALSE)
    /\ hist' = [hist EXCEPT !.calls = @ + 1, !.err = r.err, !.input = input,
                            !.total = total, !.cast = cast]
    /\ UNCHANGED <<now, thr>>

PKycSet ==
    \E caller \in {11, 16} :
        /\ CanCall
        /\ last.ok
        /\ \E input \in {Input(KycMethodSet, 13, 1, 1, 0, 0, <<>>, 0, <<>>)} :
               PReturned(caller, input, kycExecute(M(1), caller, now, KycGas, input),
                         hist.total, hist.cast)

\* A proposal that is accepted goes to a vote when there are two providers
\* or more.
PProposed(caller, input, n, r) ==
    IF r.err = NoError /\ n >= 2
    THEN PReturned(caller, input, r, n, <<0>>)
    ELSE PReturned(caller, input, r, hist.total, hist.cast)

PStartProposal ==
    \E caller \in {11, 16}, address \in {12, 16}, pt \in 1..2 :
        /\ CanCall
        /\ last.ok
        /\ \E input \in {Input(KycMethodProviderVoteProposal, address, 0, 0, pt, 0,
                               <<>>, 0, <<>>)} :
               PProposed(caller, input, GetKycProviderCount(M(1)).ret,
                         kycExecute(M(1), caller, now, KycGas, input))

PVoted(caller, input, r) ==
    PReturned(caller, input, r, hist.total,
              IF r.err = NoError THEN Append(hist.cast, input.nay) ELSE hist.cast)

PVote ==
    \E caller \in {12, 13, 14, 16}, nay \in 0..1 :
        /\ CanCall
        /\ last.ok
        /\ \E input \in {Input(KycMethodVote, 0, 0, 0, 0, nay, <<>>, 0, <<>>)} :
               PVoted(caller, input, kycExecute(M(1), caller, now, KycGas, input))

\* A day passes while a proposal is open.
PTick ==
    /\ hist.ticks < PMaxTicks
    /\ last.ok
    /\ InVoting(GetKycProviderProposol(M(1)), now)
    /\ now' = now + DaySeconds
    /\ last' = Call("Tick", 1, 0, -1, TRUE, FALSE)
    /\ hist' = [hist EXCEPT !.ticks = @ + 1]
    /\ UNCHANGED <<heap, sdb, store, thr>>

PNext ==
    \/ PKycSet
    \/ PStartProposal
    \/ PVote
    \/ PTick

SpecProviders == PInit /\ [][PNext]_vars

\* The providers as a set.
Providers(m) == {GetKycProviderList(m).ret[i] : i \in 1..GetKycProviderCount(m).ret}

\* What the accessors of the KYC fields and of the proposal return, and the
\* balance, nonce, KYC fields and storage of every account.
KycObserve(m) ==
    [Kyc      |-> [a \in PAddrs |-> KycOf(m, a)],
     List     |-> GetKycProviderList(m).ret,
     Proposal |-> [GetKycProviderProposol(m) EXCEPT !.m = 0],
     Accounts |-> [a \in PAddrs \cup {KycContractAddress} |-> AccountValues(m, a)]]

\* The last step was a call of one of the three functions of identity
\* administration.
IsAdministration ==
    /\ last'.op = "kycExecute"
    /\ last'.id \in {KycMethodSet, KycMethodProviderVoteProposal, KycMethodVote}

YesVotes(cast) == Cardinality({i \in 1..Len(cast) : cast[i] = 0})

\* The last step was a vote that was accepted.
IsVote ==
    /\ last'.op = "kycExecute"
    /\ last'.id = KycMethodVote
    /\ last'.ok

\* The proposal is decided: its record is cleared, no vote is accepted on it
\* and it blocks no new proposal.
Decided(m, time) ==
    /\ GetKycProviderProposol(m).addr = ZeroAddress
    /\ ~InVoting(GetKycProviderProposol(m), time)

\* C15 (majority threshold counts votes cast), as claimed: a proposal with N
\* eligible voters becomes decided exactly at the vote that brings the number
\* of votes cast, yes and no alike, to more than N/2.
C15_MajorityOfVotesCast ==
    [][IsVote => (Decided(MNext(1), now') <=> Len(hist'.cast) > hist.total \div 2)]_vars

\* C15 as the code has it: a vote is accepted only on a proposal that is not
\* decided and has no more than N/2 yes votes, and the proposal becomes
\* decided exactly at the vote that brings the number of yes votes, the
\* proposer's included, to more than N/2.  A no vote is recorded and decides
\* nothing.
C15_MajorityOfYesVotes ==
    [][IsVote =>
           /\ InVoting(GetKycProviderProposol(M(1)), now)
           /\ GetKycProviderProposol(M(1)).total = hist.total
           /\ GetKycProviderProposol(M(1)).yes = YesVotes(hist.cast)
           /\ GetKycProviderProposol(M(1)).no = Len(hist.cast) - YesVotes(hist.cast)
           /\ YesVotes(hist.cast) <= hist.total \div 2
           /\ Decided(MNext(1), now') <=> YesVotes(hist'.cast) > hist.total \div 2]_vars

\* Five providers: 11 proposed to add 16, and of the three votes that followed
\* the first was a no; the fourth vote cast, the third yes, decided the
\* proposal and 16 is a provider.
C15_Witness ==
    /\ last.op = "kycExecute"
    /\ last.id = KycMethodVote
    /\ last.ok
    /\ hist.total = 5
    /\ hist.cast = <<0, 1, 0, 0>>
    /\ Decided(M(1), now)
    /\ 16 \in Providers(M(1))

\* The last step was a start-proposal call.
IsProposal ==
    /\ last'.op = "kycExecute"
    /\ last'.id = KycMethodProviderVoteProposal

\* The provider list after the proposal of type pt about addr was applied.
Applied(list, pt, addr) ==
    IF pt = 1 THEN Append(list, addr) ELSE SelectSeq(list, LAMBDA x : x # addr)

\* The slots of the proposal and of its votes.
ProposalRecord(m) ==
    With(AccountValues(m, KycContractAddress).Storage, LAMBDA storage :
        [k \in {x \in DOMAIN storage :
                   \/ x[1] \in {kycVoterStartHash, kycVoteResultStartHash}
                   \/ x \in {kycProposalAddressKey, kycProposalStartTimeKey,
                             kycProposalVoteTotalKey, kycProposalAlreadyVotedKey}} |->
            storage[k]])

C17_NoDuplicateProvider ==
    /\ \A i, j \in 1..Len(GetKycProviderList(M(1)).ret) :
           GetKycProviderList(M(1)).ret[i] = GetKycProviderList(M(1)).ret[j] => i = j
    /\ GetKycProviderCount(M(1)).ret = Cardinality(Providers(M(1)))

\* The one provider 16 proposed to add itself again and was rejected.
C17_Witness ==
    /\ last.op = "kycExecute"
    /\ last.id = KycMethodProviderVoteProposal
    /\ last.addr = 16
    /\ hist.input.pt = 1
    /\ hist.input.address = 16
    /\ hist.err = ErrOutOfGas
    /\ GetKycProviderList(M(1)).ret = <<16>>

---------------------------------------------------------------------------
\* SpecProducers: one StateDB, created fresh, on which the addresses of DAddrs
\* register and unregister as producers by calls of the native contract, and
\* on which the total activated stake is set and GetProducerTopList is called,
\* as TestDposProducerList does.  A url is empty, of one piece or of two.
\*
\* hist.input is the input of the last call of the contract.

DMaxOps == 4

DAddrs == {11, 12}

DUrls == {<<>>, <<1>>, <<2>>, <<3, 4>>}

DInit ==
    /\ heap = EmptyMap
    /\ sdb = [i \in {1} |-> New(EmptyMap, {}, {})]
    /\ store = {}
    /\ last = Call("New", 1, 0, -1, TRUE, FALSE)
    /\ hist = [max |-> DMaxOps, calls |-> 0, err |-> NoError,
               input |-> Input(0, 0, 0, 0, 0, 0, <<>>, 0, <<>>)]
    /\ now = block_timestamp_epoch
    /\ thr = <<>>

\* The step of a call of the contract by caller that returned r = [m, err].
DExecuted(caller, input, r) ==
    /\ Goto(1, r.m)
    /\ last' = Call("kycExecute", 1, caller, input.funcid, r.err = NoError, FALSE)
    /\ hist' = [hist EXCEPT !.calls = @ + 1, !.err = r.err, !.input = input]
    /\ UNCHANGED <<now, thr>>

DRegister ==
    \E caller \in DAddrs, url \in DUrls :
        /\ CanCall
        /\ \E input \in {Input(DposMethodRegProds, 0, 0, 0, 0, 0, url, 0, <<>>)} :
               DExecuted(caller, input, kycExecute(M(1), caller, now, KycGas, input))

DUnregister ==
    \E caller \in DAddrs :
        /\ CanCall
        /\ \E input \in {Input(DposMethodRmvProds, 0, 0, 0, 0, 0, <<>>, 0, <<>>)} :
               DExecuted(caller, input, kycExecute(M(1), caller, now, KycGas, input))

\* The step of a call of the StateDB that left the machine m.
DCalled(op, id, m) ==
    /\ Goto(1, m)
    /\ last' = Call(op, 1, 0, id, TRUE, FALSE)
    /\ hist' = [hist EXCEPT !.calls = @ + 1]
    /\ UNCHANGED <<now, thr>>

\* The total activated stake is set just below the threshold or to it.
DSetStake ==
    \E val \in {DposActivatedStakeThreshold - 1, DposActivatedStakeThreshold} :
        /\ CanCall
        /\ DCalled("SetDposTotalActivatedStake", val,
                   SetDposTotalActivatedStake(M(1), val))

DTopList ==
    /\ CanCall
    /\ DCalled("GetProducerTopList", -1, GetProducerTopList(M(1)).m)

DNext ==
    \/ DRegister
    \/ DUnregister
    \/ DSetStake
    \/ DTopList

SpecProducers == DInit /\ [][DNext]_vars

\* The producers of a list, as a set.
Listed(list) == {list[i] : i \in 1..Len(list)}

\* The last call was a registration that was accepted.
IsRegistration ==
    /\ last.op = "kycExecute"
    /\ last.id = DposMethodRegProds
    /\ last.ok

\* C18 (registration marks active): after an accepted registration call by P,
\* GetProducerInfo(P).IsActive is true and GetProducerList returns P.
C18_RegistrationMarksActive ==
    IsRegistration =>
        /\ GetProducerInfo(M(1), last.addr).ret.IsActive
        /\ last.addr \in Listed(GetProducerList(M(1), 0, 30).ret)

\* 11 has registered with the url it holds, after it had registered and
\* unregistered: it is a producer with a url, not active and not listed.
C18_Witness ==
    /\ IsRegistration
    /\ last.addr = 11
    /\ hist.input.url = <<1>>
    /\ GetProducerInfo(M(1), 11).ret.Url = <<1>>
    /\ ~GetProducerInfo(M(1), 11).ret.IsActive
    /\ 11 \notin Listed(GetProducerList(M(1), 0, 30).ret)

\* The stored producer list: the list slots below the producer count.
ProducerSlots(m) ==
    [i \in 1..GetDposProducerCount(m).ret |->
        GetState(m, KycContractAddress, BigToHash(dposProducerAllStartKey, i - 1)).ret]

\* No address occurs twice in list.
NoDuplicate(list) == \A i, j \in 1..Len(list) : list[i] = list[j] => i = j

\* What the accessors return of the producers other than pb, and of pb but
\* for its url.
ButUrl(m, pb) ==
    [a \in DAddrs |->
        IF a = pb THEN [GetProducerInfo(m, a).ret EXCEPT !.Url = <<>>, !.nil = FALSE,
                                                         !.Owner = pb]
        ELSE GetProducerInfo(m, a).ret]

\* C19 (append on first register only): a registration call by an address
\* that is in the stored producer list changes only the url of that producer:
\* the producer count, the stored list and what GetProducerList returns are
\* as before, whatever the url; and no address is ever twice in the stored
\* list or in what GetProducerList returns.
C19_AppendOnFirstRegister ==
    [][/\ (last'.op = "kycExecute" /\ last'.id = DposMethodRegProds
               /\ last'.addr \in Listed(ProducerSlots(M(1)))) =>
              /\ GetDposProducerCount(MNext(1)).ret = GetDposProducerCount(M(1)).ret
              /\ ProducerSlots(MNext(1)) = ProducerSlots(M(1))
              /\ GetProducerList(MNext(1), 0, 30).ret = GetProducerList(M(1), 0, 30).ret
              /\ ButUrl(MNext(1), last'.addr) = ButUrl(M(1), last'.addr)
       /\ NoDuplicate(ProducerSlots(MNext(1)))
       /\ NoDuplicate(GetProducerList(MNext(1), 0, 30).ret)]_vars

\* 11 registered with a url, then with the empty url, then with a url: the
\* producer count is 2 and GetProducerList returns 11 twice.
C19_Witness ==
    /\ IsRegistration
    /\ last.addr = 11
    /\ GetDposProducerCount(M(1)).ret = 2
    /\ ProducerSlots(M(1)) = <<11, 11>>
    /\ GetProducerList(M(1), 0, 30).ret = <<11, 11>>

\* The producers that are registered and active.
ActiveProducers(m) == {a \in DAddrs : ActiveProducer(m, a)}

\* C20 (top-producer gating): GetProducerTopList returns the empty list in
\* every state whose total activated stake is below the threshold, and [P]
\* in every state whose total activated stake is at or above the threshold
\* and in which P is the one producer that is registered and active.
C20_TopProducerGating ==
    /\ GetDposTotalActivatedStake(M(1)).ret < DposActivatedStakeThreshold =>
           GetProducerTopList(M(1)).ret = <<>>
    /\ \A p \in DAddrs :
           (/\ GetDposTotalActivatedStake(M(1)).ret >= DposActivatedStakeThreshold
            /\ ActiveProducers(M(1)) = {p}) =>
               GetProducerTopList(M(1)).ret = <<p>>

\* 11 and 12 registered, 11 unregistered and the stake reached the threshold:
\* 12 is the one active producer and GetProducerTopList returns it twice.
C20_Witness ==
    /\ GetDposTotalActivatedStake(M(1)).ret >= DposActivatedStakeThreshold
    /\ ActiveProducers(M(1)) = {12}
    /\ ~GetProducerInfo(M(1), 11).ret.nil
    /\ GetProducerTopList(M(1)).ret = <<12, 12>>

---------------------------------------------------------------------------
\* SpecElection: one StateDB on which the producers 11 .. 10 + n have
\* registered with a url, n being TFew or TMany, and on which the total
\* activated stake was set to the threshold, as TestDposProducerList does.
\* Producers register and unregister by calls of the native contract, the
\* total votes of a producer are set by UpdateProducerTotalVotes, and
\* GetProducerTopList is called.
\*
\* Of the TMany producers, 10 + i has i votes: the votes of 12 or more
\* producers stay distinct, since sort.Sort orders equal elements of a longer
\* list as its quicksort leaves them.
\*
\* hist.ret is what the last call of GetProducerTopList returned, and
\* hist.elect tells that this call found the elected-done flag unset.

TMaxOps == 4

TFew == 3

TMany == 22

TMaxVotes == 2

TAddrs == (11..(10 + TMany)) \cup {40}

RECURSIVE TSeeded(_, _)
TSeeded(n, k) ==
    IF k = 0 THEN SetDposTotalActivatedStake(Fresh, DposActivatedStakeThreshold)
    ELSE With(TSeeded(n, k - 1), LAMBDA m :
             UpdateProducerTotalVotes(RegisterProducer(m, 10 + k, <<1>>), 10 + k,
                                      IF n = TMany THEN k ELSE 0))

TInit ==
    \E n \in {TFew, TMany} :
        /\ heap = TSeeded(n, n).h
        /\ sdb = [i \in {1} |-> TSeeded(n, n).s]
        /\ store = {}
        /\ last = Call("New", 1, 0, -1, TRUE, FALSE)
        /\ hist = [max |-> TMaxOps, calls |-> 0, err |-> NoError, ret |-> <<>>,
                   elect |-> FALSE]
        /\ now = block_timestamp_epoch
        /\ thr = <<>>

\* The step of a call of the contract by caller that returned r = [m, err].
TExecuted(caller, input, r) ==
    /\ Goto(1, r.m)
    /\ last' = Call("kycExecute", 1, caller, input.funcid, r.err = NoError, FALSE)
    /\ hist' = [hist EXCEPT !.calls = @ + 1, !.err = r.err]
    /\ UNCHANGED <<now, thr>>

\* A producer registers again, or a new one registers.
TRegister ==
    \E caller \in {12, 40} :
        /\ CanCall
        /\ \E input \in {Input(DposMethodRegProds, 0, 0, 0, 0, 0, <<2>>, 0, <<>>)} :
               TExecuted(caller, input, kycExecute(M(1), caller, now, KycGas, input))

TUnregister ==
    \E caller \in {12, 13} :
        /\ CanCall
        /\ \E input \in {Input(DposMethodRmvProds, 0, 0, 0, 0, 0, <<>>, 0, <<>>)} :
               TExecuted(caller, input, kycExecute(M(1), caller, now, KycGas, input))

TVotes ==
    \E pb \in 11..(10 + TFew), votes \in 0..TMaxVotes :
        /\ CanCall
        /\ GetDposProducerCount(M(1)).ret < 12
        /\ Goto(1, UpdateProducerTotalVotes(M(1), pb, votes))
        /\ last' = Call("UpdateProducerTotalVotes", 1, pb, votes, TRUE, FALSE)
        /\ hist' = [hist EXCEPT !.calls = @ + 1]
        /\ UNCHANGED <<now, thr>>

\* GetProducerTopList returned r = [m, ret].
TListed(r, elect) ==
    /\ Goto(1, r.m)
    /\ last' = Call("GetProducerTopList", 1, 0, -1, TRUE, FALSE)
    /\ hist' = [hist EXCEPT !.calls = @ + 1, !.ret = r.ret, !.elect = elect]
    /\ UNCHANGED <<now, thr>>

TTopList ==
    /\ CanCall
    /\ TListed(GetProducerTopList(M(1)),
               GetDposTopProducerElectedDone(M(1)).ret = 0)

TNext ==
    \/ TRegister
    \/ TUnregister
    \/ TVotes
    \/ TTopList

SpecElection == TInit /\ [][TNext]_vars

\* The active producers of the stored list, in the order of the list.
ActiveScan(m) ==
    SelectSeq(ProducerSlots(m), LAMBDA pb : pb # 0 /\ ActiveProducer(m, pb))

\* The entry i of scan goes before the entry j: it has more votes, or as
\* many and it is the earlier one.
GoesBefore(m, scan, i, j) ==
    \/ GetProducerInfo(m, scan[i]).ret.TotalVotes
           > GetProducerInfo(m, scan[j]).ret.TotalVotes
    \/ /\ GetProducerInfo(m, scan[i]).ret.TotalVotes
              = GetProducerInfo(m, scan[j]).ret.TotalVotes
       /\ i < j

\* scan in non-increasing order of total votes, producers of equal votes
\* in the order of scan.
Ranked(m, scan) ==
    [k \in 1..Len(scan) |->
        scan[CHOOSE i \in 1..Len(scan) :
                 Cardinality({j \in 1..Len(scan) : GoesBefore(m, scan, j, i)}) = k - 1]]

\* C21 (top-producer order): when the elected-done flag is unset and the
\* total activated stake is at or above the threshold, GetProducerTopList
\* returns at most 21 addresses, namely the active producers with the highest
\* total votes, in non-increasing order of total votes with producers of
\* equal votes in their previous list order, and it stores that order and
\* sets the elected-done flag.
C21_TopProducerOrder ==
    [][(/\ last'.op = "GetProducerTopList"
        /\ GetDposTopProducerElectedDone(M(1)).ret = 0
        /\ GetDposTotalActivatedStake(M(1)).ret >= DposActivatedStakeThreshold) =>
           /\ Len(hist'.ret) <= 21
           /\ hist'.ret = Take(Ranked(M(1), ActiveScan(M(1))), 21)
           /\ Take(ProducerSlots(MNext(1)), Len(ActiveScan(M(1))))
                  = Ranked(M(1), ActiveScan(M(1)))
           /\ GetDposTopProducerElectedDone(MNext(1)).ret = 1]_vars

\* With 13 given 2 votes and 12 unregistered, GetProducerTopList found the
\* flag unset and returned 13 twice.
C21_Witness ==
    /\ last.op = "GetProducerTopList"
    /\ hist.elect
    /\ GetProducerInfo(M(1), 13).ret.TotalVotes = 2
    /\ ActiveScan(M(1)) = <<13, 11, 13>>
    /\ hist.ret = <<13, 11, 13>>

\* C22 (inactive producers are pruned): every address that GetProducerTopList
\* returns is a registered producer that is active, and after a
\* recomputation the stored producer count is the number of active
\* producers.
C22_InactivePruned ==
    last.op = "GetProducerTopList" =>
        /\ \A i \in 1..Len(hist.ret) :
               /\ ~GetProducerInfo(M(1), hist.ret[i]).ret.nil
               /\ GetProducerInfo(M(1), hist.ret[i]).ret.IsActive
        /\ hist.elect =>
               GetDposProducerCount(M(1)).ret
                   = Cardinality({a \in TAddrs : ActiveProducer(M(1), a)})

\* 13 unregistered and GetProducerTopList recomputed the list: it returned
\* 13 with the two active producers, and the stored count is still 3.
C22_Witness ==
    /\ last.op = "GetProducerTopList"
    /\ hist.elect
    /\ ~GetProducerInfo(M(1), 13).ret.IsActive
    /\ hist.ret = <<11, 12, 13>>
    /\ GetDposProducerCount(M(1)).ret = 3
    /\ Cardinality({a \in TAddrs : ActiveProducer(M(1), a)}) = 2

---------------------------------------------------------------------------
\* SpecStaking: one StateDB on which 11 and 12 are active producers, 14 is a
\* producer that unregistered, 13 never registered, and the voters 21 and 22
\* hold a balance; 22 has staked the threshold or has not.  The voters
\* increase and decrease their stake, vote for producers and claim their
\* refund by calls of the native contract, and the clock of the chain
\* advances by a second or by the lock period (now is evm.Time).
\*
\* hist.input is the input of the last call of the contract; hist.staked are
\* the voters of whom a stake increase was accepted; hist.refund and hist.rt
\* are the pending refund of the caller and its request timestamp as the last
\* call found them.

SMaxOps == 4

SMaxTicks == 2

SBalance == 3

SVoters == {21, 22}

SProducers == {11, 12, 14}

\* 31 times the producer 11.
SManyTos == [i \in 1..31 |-> 11]

\* 30 times the producer 12.
SCapTos == [i \in 1..30 |-> 12]

STos == {<<11>>, <<12, 11>>, <<13, 14, 12>>, SCapTos, SManyTos}

SSeeded(staked) ==
    With(dposUnregisterUnproducer(
             RegisterProducer(
                 RegisterProducer(RegisterProducer(Fresh, 11, <<1>>), 12, <<1>>),
                 14, <<1>>),
             14).m,
         LAMBDA m :
             With(AddBalance(AddBalance(m, 21, SBalance), 22, DposActivatedStakeThreshold),
                  LAMBDA m1 :
                      IF staked
                      THEN dposIncStake(m1, block_timestamp_epoch, 22,
                                        DposActivatedStakeThreshold).m
                      ELSE m1))

SInit ==
    \E staked \in BOOLEAN :
        /\ heap = SSeeded(staked).h
        /\ sdb = [i \in {1} |-> SSeeded(staked).s]
        /\ store = {}
        /\ last = Call("New", 1, 0, -1, TRUE, FALSE)
        /\ hist = [max |-> SMaxOps, calls |-> 0, err |-> NoError, ticks |-> 0,
                   input |-> Input(0, 0, 0, 0, 0, 0, <<>>, 0, <<>>),
                   staked |-> IF staked THEN {22} ELSE {}, refund |-> 0, rt |-> 0]
        /\ now = block_timestamp_epoch
        /\ thr = <<>>

\* The step of a call of the contract by caller that returned r = [m, err].
SExecuted(caller, input, r) ==
    /\ Goto(1, r.m)
    /\ last' = Call("kycExecute", 1, caller, input.funcid, r.err = NoError, FALSE)
    /\ hist' = [hist EXCEPT !.calls = @ + 1, !.err = r.err, !.input = input,
                            !.staked = IF input.funcid = DposMethodAddStake
                                          /\ r.err = NoError
                                       THEN @ \cup {caller} ELSE @,
                            !.refund = GetRefundRequestInfo(M(1), caller).stake,
                            !.rt = GetRefundRequestInfo(M(1), caller).requestTime]
    /\ UNCHANGED <<now, thr>>

SAddStake ==
    \E caller \in SVoters, value \in 1..DposActivatedStakeThreshold :
        /\ CanCall
        /\ last.ok
        /\ \E input \in {Input(DposMethodAddStake, 0, 0, 0, 0, 0, <<>>, value, <<>>)} :
               SExecuted(caller, input, kycExecute(M(1), caller, now, KycGas, input))

SSubStake ==
    \E caller \in {21}, value \in 0..DposActivatedStakeThreshold :
        /\ CanCall
        /\ last.ok
        /\ \E input \in {Input(DposMethodSubStake, 0, 0, 0, 0, 0, <<>>, value, <<>>)} :
               SExecuted(caller, input, kycExecute(M(1), caller, now, KycGas, input))

SProdsVote ==
    \E caller \in {21}, tos \in STos :
        /\ CanCall
        /\ last.ok
        /\ \E input \in {Input(DposMethodProdsVote, 0, 0, 0, 0, 0, <<>>, 0, tos)} :
               SExecuted(caller, input, kycExecute(M(1), caller, now, KycGas, input))

SRefund ==
    \E caller \in {21} :
        /\ CanCall
        /\ last.ok
        /\ \E input \in {Input(DposMethodRefund, 0, 0, 0, 0, 0, <<>>, 0, <<>>)} :
               SExecuted(caller, input, kycExecute(M(1), caller, now, KycGas, input))

\* The clock advances while a refund is pending.
STick ==
    \E d \in {1, DaySeconds * 3} :
        /\ hist.ticks < SMaxTicks
        /\ last.ok
        /\ GetRefundRequestInfo(M(1), 21).stake > 0
        /\ now' = now + d
        /\ hist' = [hist EXCEPT !.ticks = @ + 1]
        /\ last' = Call("Tick", 1, 0, d, TRUE, FALSE)
        /\ UNCHANGED <<heap, sdb, store, thr>>

SNext ==
    \/ SAddStake
    \/ SSubStake
    \/ SProdsVote
    \/ SRefund
    \/ STick

SpecStaking == SInit /\ [][SNext]_vars

\* The accounts that hold a balance.
SAccounts == SVoters \cup SProducers \cup {KycContractAddress}

\* The balances of the accounts other than those of skip.
BalancesBut(m, skip) == [a \in SAccounts \ skip |-> GetBalance(m, a).ret]

\* The step was a call of function funcid of the contract.
IsCall(funcid) == last'.op = "kycExecute" /\ last'.id = funcid

\* C23 (stake increase drains the pending refund first): an accepted stake
\* increase of v by a caller with pending refund r raises the caller's stake
\* by v; if r >= v no account balance changes, the pending refund becomes
\* r - v and its request timestamp is kept; if r < v exactly v - r moves from
\* the caller's balance to the reserved contract's balance and the pending
\* refund and its timestamp become 0.
C23_StakeIncrease ==
    [][(IsCall(DposMethodAddStake) /\ last'.ok) =>
          /\ GetVoterStaking(MNext(1), last'.addr).ret
                 = GetVoterStaking(M(1), last'.addr).ret + hist'.input.value
          /\ GetRefundRequestInfo(M(1), last'.addr).stake >= hist'.input.value =>
                 /\ BalancesBut(MNext(1), {}) = BalancesBut(M(1), {})
                 /\ GetRefundRequestInfo(MNext(1), last'.addr).stake
                        = GetRefundRequestInfo(M(1), last'.addr).stake
                              - hist'.input.value
                 /\ GetRefundRequestInfo(MNext(1), last'.addr).requestTime
                        = GetRefundRequestInfo(M(1), last'.addr).requestTime
          /\ GetRefundRequestInfo(M(1), last'.addr).stake < hist'.input.value =>
                 /\ GetBalance(MNext(1), last'.addr).ret
                        = GetBalance(M(1), last'.addr).ret
                              - (hist'.input.value
                                     - GetRefundRequestInfo(M(1), last'.addr).stake)
                 /\ GetBalance(MNext(1), KycContractAddress).ret
                        = GetBalance(M(1), KycContractAddress).ret
                              + (hist'.input.value
                                     - GetRefundRequestInfo(M(1), last'.addr).stake)
                 /\ BalancesBut(MNext(1), {last'.addr, KycContractAddress})
                        = BalancesBut(M(1), {last'.addr, KycContractAddress})
                 /\ GetRefundRequestInfo(MNext(1), last'.addr).stake = 0
                 /\ GetRefundRequestInfo(MNext(1), last'.addr).requestTime = 0]_vars

\* 21 had a pending refund of 1 and increased its stake by 2: the refund is
\* gone and 1 was taken from its balance.
C23_Witness ==
    /\ last.op = "kycExecute"
    /\ last.id = DposMethodAddStake
    /\ last.ok
    /\ last.addr = 21
    /\ hist.input.value = 2
    /\ hist.refund = 1
    /\ hist.rt # 0
    /\ GetVoterStaking(M(1), 21).ret = 3
    /\ GetBalance(M(1), 21).ret = 0
    /\ GetRefundRequestInfo(M(1), 21).stake = 0
    /\ GetRefundRequestInfo(M(1), 21).requestTime = 0

\* C24 (stake decrease): a decrease of v is rejected while the total
\* activated stake is below the threshold, when v <= 0, or when v exceeds
\* the caller's stake; when accepted it lowers the caller's stake by v,
\* raises the caller's pending refund by v with the request timestamp set to
\* the current block time, and changes no account balance.
C24_StakeDecrease ==
    [][IsCall(DposMethodSubStake) =>
          /\ (\/ GetDposTotalActivatedStake(M(1)).ret < DposActivatedStakeThreshold
              \/ hist'.input.value <= 0
              \/ hist'.input.value > GetVoterStaking(M(1), last'.addr).ret) =>
                 ~last'.ok
          /\ last'.ok =>
                 /\ GetVoterStaking(MNext(1), last'.addr).ret
                        = GetVoterStaking(M(1), last'.addr).ret - hist'.input.value
                 /\ GetRefundRequestInfo(MNext(1), last'.addr).stake
                        = GetRefundRequestInfo(M(1), last'.addr).stake
                              + hist'.input.value
                 /\ GetRefundRequestInfo(MNext(1), last'.addr).requestTime = now
                 /\ BalancesBut(MNext(1), {}) = BalancesBut(M(1), {})]_vars

\* 21 had a pending refund of 1, requested before the clock advanced, and
\* decreased its stake by 1 more: the refund is 2 and its timestamp is the
\* current block time.
C24_Witness ==
    /\ last.op = "kycExecute"
    /\ last.id = DposMethodSubStake
    /\ last.ok
    /\ hist.input.value = 1
    /\ hist.refund = 1
    /\ hist.rt < now
    /\ GetRefundRequestInfo(M(1), 21).stake = 2
    /\ GetRefundRequestInfo(M(1), 21).requestTime = now
    /\ GetVoterStaking(M(1), 21).ret = 0

\* C25 (refund lock): a refund claim pays out only when the current block
\* time is strictly more than 3 days after the caller's refund request
\* timestamp; an earlier claim is rejected and leaves balances and the refund
\* record unchanged; an accepted claim moves exactly the pending amount from
\* the reserved contract's balance to the caller and zeroes the refund
\* record, so a refund is paid at most once.
C25_RefundLock ==
    [][IsCall(DposMethodRefund) =>
          /\ now <= GetRefundRequestInfo(M(1), last'.addr).requestTime + 3 * DaySeconds =>
                 /\ ~last'.ok
                 /\ BalancesBut(MNext(1), {}) = BalancesBut(M(1), {})
                 /\ GetRefundRequestInfo(MNext(1), last'.addr).stake
                        = GetRefundRequestInfo(M(1), last'.addr).stake
                 /\ GetRefundRequestInfo(MNext(1), last'.addr).requestTime
                        = GetRefundRequestInfo(M(1), last'.addr).requestTime
          /\ last'.ok =>
                 /\ GetBalance(MNext(1), last'.addr).ret
                        = GetBalance(M(1), last'.addr).ret
                              + GetRefundRequestInfo(M(1), last'.addr).stake
                 /\ GetBalance(MNext(1), KycContractAddress).ret
                        = GetBalance(M(1), KycContractAddress).ret
                              - GetRefundRequestInfo(M(1), last'.addr).stake
                 /\ BalancesBut(MNext(1), {last'.addr, KycContractAddress})
                        = BalancesBut(M(1), {last'.addr, KycContractAddress})
                 /\ GetRefundRequestInfo(MNext(1), last'.addr).stake = 0
                 /\ GetRefundRequestInfo(MNext(1), last'.addr).requestTime = 0]_vars

\* 21 claimed its pending refund of 2 one second after the lock period had
\* passed, and was paid.
C25_Witness ==
    /\ last.op = "kycExecute"
    /\ last.id = DposMethodRefund
    /\ last.ok
    /\ hist.refund = 2
    /\ now = hist.rt + 3 * DaySeconds + 1
    /\ GetBalance(M(1), 21).ret = SBalance
    /\ GetRefundRequestInfo(M(1), 21).stake = 0

\* C26 (activated stake counts first stakes only): the total activated
\* stake is increased by the staked value on a voter's first accepted stake
\* increase; every later stake increase of the voter, and every other call,
\* leaves it unchanged.
C26_FirstStakeOnly ==
    [][GetDposTotalActivatedStake(MNext(1)).ret =
          GetDposTotalActivatedStake(M(1)).ret
              + (IF /\ IsCall(DposMethodAddStake)
                    /\ last'.ok
                    /\ last'.addr \notin hist.staked
                 THEN hist'.input.value ELSE 0)]_vars

\* 22 and 21 staked 2 each, 21 decreased its stake to 0 and increased it by 1
\* again: the total activated stake is 5, more than all balances together.
C26_Witness ==
    /\ last.op = "kycExecute"
    /\ last.id = DposMethodAddStake
    /\ last.ok
    /\ last.addr = 21
    /\ hist.input.value = 1
    /\ hist.refund = 2
    /\ GetDposTotalActivatedStake(M(1)).ret = 5

\* The producers of tos that are registered and active.
ValidTos(m, tos) == SelectSeq(tos, LAMBDA pb : ActiveProducer(m, pb))

C30_StakeConservation ==
    /\ GetBalance(M(1), KycContractAddress).ret
           >= GetVoterStaking(M(1), 21).ret + GetRefundRequestInfo(M(1), 21).stake
                  + GetVoterStaking(M(1), 22).ret + GetRefundRequestInfo(M(1), 22).stake
    /\ \A a \in SVoters :
           /\ GetVoterStaking(M(1), a).ret >= 0
           /\ GetRefundRequestInfo(M(1), a).stake >= 0

\* 21 was paid its refund of 1 while it and 22 hold a stake: the contract
\* holds the stakes that are left.
C30_Witness ==
    /\ last.op = "kycExecute"
    /\ last.id = DposMethodRefund
    /\ last.ok
    /\ hist.refund = 1
    /\ GetVoterStaking(M(1), 21).ret = 1
    /\ GetVoterStaking(M(1), 22).ret = 2
    /\ GetBalance(M(1), KycContractAddress).ret = 3

---------------------------------------------------------------------------
\* The snapshot of the authorized signers (consensus/dpos).  An address is
\* the sequence of its bytes; Signers is a set, and ranging over it yields
\* its members in some order, range.

\* bytes.Compare of two byte strings of one length: -1, 0 or 1.
RECURSIVE Compare(_, _)
Compare(a, b) ==
    IF a = <<>> THEN 0
    ELSE IF Head(a) < Head(b) THEN -1
    ELSE IF Head(a) > Head(b) THEN 1
    ELSE Compare(Tail(a), Tail(b))

\* list with the elements at i and j exchanged.
Swapped(list, i, j) == [list EXCEPT ![i] = list[j], ![j] = list[i]]

\* The inner loop of signers, from j on.
RECURSIVE SignersInner(_, _, _)
SignersInner(list, i, j) ==
    IF j > Len(list) THEN list
    ELSE SignersInner(IF Compare(list[i], list[j]) > 0 THEN Swapped(list, i, j) ELSE list,
                      i, j + 1)

\* The outer loop of signers, from i on.
RECURSIVE SignersOuter(_, _)
SignersOuter(list, i) ==
    IF i > Len(list) THEN list
    ELSE SignersOuter(SignersInner(list, i, i + 1), i + 1)

\* signers that returns the signers in the order the map yields them.
signers_Unsorted(range) == range

\* DposSnapshot.signers
signers(range) == SignersOuter(range, 1)

\* The loop of inturn: the offset of signer in list, or the length of list.
RECURSIVE SignerOffset(_, _, _)
SignerOffset(list, signer, offset) ==
    IF offset < Len(list) /\ list[offset + 1] # signer
    THEN SignerOffset(list, signer, offset + 1)
    ELSE offset

\* DposSnapshot.inturn of a snapshot with at least one signer.
inturn(range, number, signer) ==
    (number % Len(signers(range))) = SignerOffset(signers(range), signer, 0)

\* SpecSigners: a snapshot with one signer or more, whose inturn is called
\* for the block numbers 0, 1, ... and any address.
\*
\* hist.signers is Signers, hist.number the block number, hist.range the
\* order in which the last call ranged over Signers; last.addr is the signer
\* asked about and last.ok what inturn returned.

RMaxNumber == 6

\* The addresses, of two bytes each.
RAddrs == {<<a, b>> : a, b \in 0..1}

\* The orders in which ranging over the set S may yield its members.
Ranges(S) ==
    {f \in [1..Cardinality(S) -> S] : \A i, j \in 1..Cardinality(S) : f[i] = f[j] => i = j}

RInit ==
    \E S \in (SUBSET RAddrs) \ {{}} :
        /\ heap = <<>>
        /\ sdb = <<>>
        /\ store = {}
        /\ last = Call("newSnapshot", 1, <<>>, 0, TRUE, FALSE)
        /\ hist = [signers |-> S, number |-> 0, range |-> <<>>]
        /\ now = 0
        /\ thr = <<>>

RInturn ==
    \E signer \in RAddrs, range \in Ranges(hist.signers) :
        /\ last' = Call("inturn", 1, signer, hist.number,
                        inturn(range, hist.number, signer), FALSE)
        /\ hist' = [hist EXCEPT !.range = range]
        /\ UNCHANGED <<heap, sdb, store, now, thr>>

\* The chain grows by a block.
RBlock ==
    /\ hist.number < RMaxNumber
    /\ hist' = [hist EXCEPT !.number = @ + 1, !.range = <<>>]
    /\ last' = Call("block", 1, <<>>, hist.number + 1, TRUE, FALSE)
    /\ UNCHANGED <<heap, sdb, store, now, thr>>

RNext ==
    \/ RInturn
    \/ RBlock

SpecSigners == RInit /\ [][RNext]_vars

\* The address a is before b in the order of their bytes.
BytesBefore(a, b) ==
    \E k \in 1..Len(a) :
        /\ \A i \in 1..(k - 1) : a[i] = b[i]
        /\ a[k] < b[k]

\* The index, from 0, of the signer s among the signers S sorted ascending
\* by address bytes.
IndexAscending(S, s) == Cardinality({t \in S : BytesBefore(t, s)})

\* C28 (signer rotation): for a snapshot with n >= 1 authorized signers and
\* any block number, inturn(number, s) is true for exactly one authorized
\* signer s, the one at index (number mod n) of the signers sorted ascending
\* by address bytes, so the in-turn signer cycles with period n; inturn is
\* false for every address outside the signer set.
C28_SignerRotation ==
    /\ last.op = "inturn" =>
           last.ok = (/\ last.addr \in hist.signers
                      /\ IndexAscending(hist.signers, last.addr)
                             = hist.number % Cardinality(hist.signers))
    /\ \A range \in Ranges(hist.signers) :
           /\ Cardinality({s \in RAddrs : inturn(range, hist.number, s)}) = 1
           /\ \A s \in RAddrs :
                  /\ inturn(range, hist.number, s) =>
                         /\ s \in hist.signers
                         /\ IndexAscending(hist.signers, s)
                                = hist.number % Cardinality(hist.signers)
                  /\ inturn(range, hist.number + Cardinality(hist.signers), s)
                         = inturn(range, hist.number, s)

\* Of the three signers 01, 10 and 11, yielded in the order 11, 01, 10, the
\* signer 10 is in turn at block 4.
C28_Witness ==
    /\ last.op = "inturn"
    /\ last.ok
    /\ hist.signers = {<<0, 1>>, <<1, 0>>, <<1, 1>>}
    /\ hist.range = <<<<1, 1>>, <<0, 1>>, <<1, 0>>>>
    /\ hist.number = 4
    /\ last.addr = <<1, 0>>

---------------------------------------------------------------------------
\* SpecProducers, continued.

\* C29 (producer url round trip): after an accepted registration call by P
\* with a url that is not empty, GetProducerInfo(P).Url is the url of that
\* call, whatever url P had registered before.
C29_UrlRoundTrip ==
    (IsRegistration /\ hist.input.url # <<>>) =>
        GetProducerInfo(M(1), last.addr).ret.Url = hist.input.url

\* 11 registered with a url of two pieces and then with a url of one piece:
\* its url is the new piece followed by the second piece of the old url.
C29_Witness ==
    /\ IsRegistration
    /\ last.addr = 11
    /\ hist.input.url = <<1>>
    /\ GetProducerInfo(M(1), 11).ret.Url = <<1, 4>>

---------------------------------------------------------------------------
\* SpecWeights: one StateDB on which 11 and 12 are active producers and the
\* voter 22 has staked the threshold and voted for 11.  The voter 21 increases
\* and decreases its stake and votes, 22 decreases its stake, the producer 11
\* registers again, with a url or with the empty url, and the clock advances
\* by the 52 days that double the weight of a stake.
\*
\* A call whose doChangeProducerVoteingWeight reads the info of a producer
\* that has none dereferences nil: last.panic is set and the run ends.

WMaxOps == 4

WMaxTicks == 1

WBalance == 2

WVoters == {21, 22}

WProducers == {11, 12}

WTos == {<<11>>, <<12, 11>>, <<11, 11>>}

\* The loop of doChangeProducerVoteingWeight meets a producer of the list of
\* from whose info is nil.
NilVoted(m, from) ==
    \E i \in 1..Len(GetVoterProducers(m, from).ret) :
        GetProducerInfo(m, GetVoterProducers(m, from).ret[i]).ret.nil

WSeeded ==
    With(AddBalance(
             AddBalance(RegisterProducer(RegisterProducer(Fresh, 11, <<1>>), 12, <<1>>),
                        21, WBalance),
             22, DposActivatedStakeThreshold),
         LAMBDA m :
             With(dposIncStake(m, block_timestamp_epoch, 22,
                               DposActivatedStakeThreshold).m,
                  LAMBDA m1 :
                      dposVoteForProducer(m1, block_timestamp_epoch, 22, <<11>>).m))

WInit ==
    /\ heap = WSeeded.h
    /\ sdb = [i \in {1} |-> WSeeded.s]
    /\ store = {}
    /\ last = Call("New", 1, 0, -1, TRUE, FALSE)
    /\ hist = [max |-> WMaxOps, calls |-> 0, err |-> NoError, ticks |-> 0,
               input |-> Input(0, 0, 0, 0, 0, 0, <<>>, 0, <<>>)]
    /\ now = block_timestamp_epoch
    /\ thr = <<>>

\* The step of a call of the contract by caller that returned r = [m, err],
\* or that did not return when it met a nil info.
WExecuted(caller, input, r, panic) ==
    /\ IF panic
       THEN /\ UNCHANGED <<heap, sdb, store>>
            /\ last' = Call("kycExecute", 1, caller, input.funcid, FALSE, TRUE)
       ELSE /\ Goto(1, r.m)
            /\ last' = Call("kycExecute", 1, caller, input.funcid, r.err = NoError, FALSE)
    /\ hist' = [hist EXCEPT !.calls = @ + 1, !.err = r.err, !.input = input]
    /\ UNCHANGED <<now, thr>>

\* A call that changes the weight of the caller: every such call that is not
\* rejected runs doChangeProducerVoteingWeight on the list of the caller.
WWeighed(caller, input, r) ==
    WExecuted(caller, input, r, r.err = NoError /\ NilVoted(M(1), caller))

WRegister ==
    \E url \in {<<>>, <<2>>} :
        /\ CanCall
        /\ \E input \in {Input(DposMethodRegProds, 0, 0, 0, 0, 0, url, 0, <<>>)} :
               WExecuted(11, input, kycExecute(M(1), 11, now, KycGas, input), FALSE)

WAddStake ==
    \E value \in 1..WBalance :
        /\ CanCall
        /\ \E input \in {Input(DposMethodAddStake, 0, 0, 0, 0, 0, <<>>, value, <<>>)} :
               WWeighed(21, input, kycExecute(M(1), 21, now, KycGas, input))

WSubStake ==
    \E caller \in WVoters :
        /\ CanCall
        /\ \E input \in {Input(DposMethodSubStake, 0, 0, 0, 0, 0, <<>>, 1, <<>>)} :
               WWeighed(caller, input, kycExecute(M(1), caller, now, KycGas, input))

WProdsVote ==
    \E tos \in WTos :
        /\ CanCall
        /\ \E input \in {Input(DposMethodProdsVote, 0, 0, 0, 0, 0, <<>>, 0, tos)} :
               WWeighed(21, input, kycExecute(M(1), 21, now, KycGas, input))

WTick ==
    /\ hist.ticks < WMaxTicks
    /\ ~last.panic
    /\ now' = now + 52 * DaySeconds
    /\ hist' = [hist EXCEPT !.ticks = @ + 1]
    /\ last' = Call("Tick", 1, 0, 52, TRUE, FALSE)
    /\ UNCHANGED <<heap, sdb, store, thr>>

WNext ==
    \/ WRegister
    \/ WAddStake
    \/ WSubStake
    \/ WProdsVote
    \/ WTick

SpecWeights == WInit /\ [][WNext]_vars

\* C31 (no abort in vote-weight recomputation): every address in the
\* voted-producer list of a voter has a producer info that is not nil, and no
\* stake increase, stake decrease or producer vote dereferences a nil info.
C31_NoAbort ==
    /\ ~last.panic
    /\ \A v \in WVoters : ~NilVoted(M(1), v)

\* 11 registered again with the empty url, and the stake decrease of 22,
\* which had voted for 11, met the nil info of 11.
C31_Witness ==
    /\ last.panic
    /\ last.addr = 22
    /\ last.id = DposMethodSubStake
    /\ GetProducerInfo(M(1), 11).ret.nil
    /\ GetVoterProducers(M(1), 22).ret = <<11>>

\* The total votes stored for the producer pb.
TotalVotesOf(m, pb) ==
    GetSlot(m, AddressToHashWithPrefix(pb, dposProducerTotalVotesKey)).ret

\* The number of entries of the voted-producer list of v that name pb.
EntriesFor(m, v, pb) ==
    Cardinality({i \in 1..Len(GetVoterProducers(m, v).ret) :
                    GetVoterProducers(m, v).ret[i] = pb})

\* C33 (vote totals are consistent): the total votes of each producer are the
\* sum, over the entries of the voted-producer lists of all voters that name
\* the producer, of the last computed vote weight of the voter, and are never
\* negative.
C33_VoteTotals ==
    \A pb \in WProducers :
        /\ TotalVotesOf(M(1), pb)
               = EntriesFor(M(1), 21, pb) * GetDposVoterLastVoteWeight(M(1), 21).ret
                     + EntriesFor(M(1), 22, pb) * GetDposVoterLastVoteWeight(M(1), 22).ret
        /\ TotalVotesOf(M(1), pb) >= 0

\* After the clock advanced 21 staked 1 and voted for 12 and 11, and 22
\* lowered its stake to 1: the weight of 21 is 2, that of 22 is 2 as well, and
\* 11 has the votes of both.
C33_Witness ==
    /\ last.op = "kycExecute"
    /\ last.ok
    /\ now > block_timestamp_epoch
    /\ GetVoterProducers(M(1), 21).ret = <<12, 11>>
    /\ GetVoterStaking(M(1), 21).ret = 1
    /\ GetDposVoterLastVoteWeight(M(1), 21).ret = 2
    /\ GetVoterStaking(M(1), 22).ret = 1
    /\ TotalVotesOf(M(1), 11) = 4
    /\ TotalVotesOf(M(1), 12) = 2

\* C34 (one weight per producer): the voted-producer list of a voter never
\* holds a producer twice, so the total votes of a producer are at most the
\* sum of the last vote weights of the voters.
C34_OneWeightPerProducer ==
    /\ \A v \in WVoters : NoDuplicate(GetVoterProducers(M(1), v).ret)
    /\ \A pb \in WProducers :
           TotalVotesOf(M(1), pb)
               <= GetDposVoterLastVoteWeight(M(1), 21).ret
                      + GetDposVoterLastVoteWeight(M(1), 22).ret

\* 21 staked 1 and submitted the producer 11 twice: its list holds 11 twice
\* and 11 has 4 votes, the 2 of 22 and twice the 1 of 21.
C34_Witness ==
    /\ last.op = "kycExecute"
    /\ last.id = DposMethodProdsVote
    /\ last.ok
    /\ GetVoterProducers(M(1), 21).ret = <<11, 11>>
    /\ GetDposVoterLastVoteWeight(M(1), 21).ret = 1
    /\ GetDposVoterLastVoteWeight(M(1), 22).ret = 2
    /\ TotalVotesOf(M(1), 11) = 4

\* C35 (the elected list has no duplicates): GetProducerTopList never returns
\* the same address twice.
C35_ElectedOnce ==
    last.op = "GetProducerTopList" => NoDuplicate(hist.ret)

\* After 12 unregistered, the election over [11, 12, 13] returns 13 twice and
\* stores it twice.
C35_Witness ==
    /\ last.op = "GetProducerTopList"
    /\ hist.elect
    /\ ~GetProducerInfo(M(1), 12).ret.IsActive
    /\ hist.ret = <<11, 13, 13>>
    /\ ProducerSlots(M(1)) = <<11, 13, 13>>

\* ---------------------------------------------------------------------------
\* The reserved contract account across reads and finalisation: calls of the
\* contract fill the governance storage of a fresh StateDB, the reads are
\* called on it, and Finalise, IntermediateRoot and Commit end the transaction.
\* ---------------------------------------------------------------------------

KMaxOps == 4

KProviders == {11, 12}

\* The reads of the governance state.
Reads ==
    {"GetKycProviderCount", "KycProviderExists", "GetKycLevel", "GetKycProviderList",
     "GetKycProviderProposol", "GetProducerInfo", "GetVoterStaking",
     "GetRefundRequestInfo", "TxKycValidate"}

\* The machine after the read.
ReadOf(m, kind) ==
    CASE kind = "GetKycProviderCount" -> GetKycProviderCount(m).m
      [] kind = "KycProviderExists" -> KycProviderExists(m, 11).m
      [] kind = "GetKycLevel" -> GetKycLevel(m, 11).m
      [] kind = "GetKycProviderList" -> GetKycProviderList(m).m
      [] kind = "GetKycProviderProposol" -> GetKycProviderProposol(m).m
      [] kind = "GetProducerInfo" -> GetProducerInfo(m, 11).m
      [] kind = "GetVoterStaking" -> GetVoterStaking(m, 21).m
      [] kind = "GetRefundRequestInfo" -> GetRefundRequestInfo(m, 21).m
      [] kind = "TxKycValidate" -> TxKycValidate(m, 21, 11, 1).m

\* The calls that end a transaction or a block.
Finalisers == {"Finalise", "IntermediateRoot", "Commit"}

\* What the governance reads return: the provider list and count, the
\* proposal, and the producer and voter records.
Governance(m) ==
    [GetKycProviderCount |-> GetKycProviderCount(m).ret,
     GetKycProviderList  |-> GetKycProviderList(m).ret,
     Proposal            |-> ProposalRecord(m),
     GetProducerInfo     |-> [a \in KProviders |-> GetProducerInfo(m, a).ret],
     GetProducerList     |-> GetProducerList(m, 0, 30).ret,
     GetVoterStaking     |-> GetVoterStaking(m, 21).ret,
     GetVoterProducers   |-> GetVoterProducers(m, 21).ret]

KInit ==
    /\ heap = EmptyMap
    /\ sdb = [i \in {1} |-> New(EmptyMap, {}, {})]
    /\ store = {}
    /\ last = Call("New", 1, 0, -1, TRUE, FALSE)
    /\ hist = [max |-> KMaxOps, calls |-> 0, err |-> NoError,
               before |-> Governance(Fresh), balance |-> 0]
    /\ now = block_timestamp_epoch
    /\ thr = <<>>

\* The step of a call of the contract by caller that returned r = [m, err].
KExecuted(caller, funcid, r) ==
    /\ Goto(1, r.m)
    /\ last' = Call("kycExecute", 1, caller, funcid, r.err = NoError, FALSE)
    /\ hist' = [hist EXCEPT !.calls = @ + 1, !.err = r.err]
    /\ UNCHANGED <<now, thr>>

\* The step of a call op of the StateDB, with the flag d, that left m1.
KReturned(op, d, m1) ==
    /\ Goto(1, m1)
    /\ last' = Call(op, 1, 0, IF d THEN 1 ELSE 0, TRUE, FALSE)
    /\ hist' = [hist EXCEPT !.calls = @ + 1,
                            !.before = IF op \in Finalisers
                                       THEN Governance(M(1))
                                       ELSE @,
                            !.balance = IF op \in Finalisers
                                        THEN GetBalance(M(1), KycContractAddress).ret
                                        ELSE @]
    /\ UNCHANGED <<now, thr>>

KStartProposal ==
    \E address \in KProviders :
        /\ CanCall
        /\ KExecuted(11, KycMethodProviderVoteProposal,
                     kycExecute(M(1), 11, now, KycGas,
                                Input(KycMethodProviderVoteProposal, address,
                                      0, 0, 1, 0, <<>>, 0, <<>>)))

KRegProds ==
    /\ CanCall
    /\ KExecuted(11, DposMethodRegProds,
                 kycExecute(M(1), 11, now, KycGas,
                            Input(DposMethodRegProds, 0, 0, 0, 0, 0, <<1>>, 0, <<>>)))

KAddBalance ==
    /\ CanCall
    /\ KReturned("AddBalance", FALSE,
                 AddBalance(M(1), 21, DposActivatedStakeThreshold))

KAddStake ==
    /\ CanCall
    /\ KExecuted(21, DposMethodAddStake,
                 kycExecute(M(1), 21, now, KycGas,
                            Input(DposMethodAddStake, 0, 0, 0, 0, 0, <<>>,
                                  DposActivatedStakeThreshold, <<>>)))

KRead ==
    \E kind \in Reads :
        /\ CanCall
        /\ KReturned(kind, FALSE, ReadOf(M(1), kind))

KFinalise ==
    \E d \in BOOLEAN :
        /\ CanCall
        /\ KReturned("Finalise", d, Finalise(M(1), d))

KIntermediateRoot ==
    \E d \in BOOLEAN :
        /\ CanCall
        /\ KReturned("IntermediateRoot", d, IntermediateRoot(M(1), d).m)

KCommit ==
    \E d \in BOOLEAN :
        /\ CanCall
        /\ KReturned("Commit", d, Commit(M(1), d).m)

KNext ==
    \/ KStartProposal
    \/ KRegProds
    \/ KAddBalance
    \/ KAddStake
    \/ KRead
    \/ KFinalise
    \/ KIntermediateRoot
    \/ KCommit

SpecReserved == KInit /\ [][KNext]_vars

\* C32 (governance state survives finalisation): after Finalise(true),
\* IntermediateRoot(true) or Commit(true) the provider list and count, the
\* proposal, and the producer and voter records are what they were before the
\* call, also when the reserved account has no balance, no nonce and no code.
C32_SurvivesFinalisation ==
    (last.op \in Finalisers /\ last.id = 1) => Governance(M(1)) = hist.before

\* Finalise(true) on a reserved account without balance that held one
\* provider and one producer: both are gone.
C32_Witness ==
    /\ last.op = "Finalise"
    /\ last.id = 1
    /\ hist.balance = 0
    /\ hist.before.GetKycProviderList = <<11>>
    /\ hist.before.GetProducerList = <<11>>
    /\ GetKycProviderCount(M(1)).ret = 0
    /\ GetProducerInfo(M(1), 11).ret.nil
    /\ GetProducerList(M(1), 0, 30).ret = <<>>

\* C40 (governance reads have no side effects): a read leaves what the reads
\* return, the existence of every account and the journal as they were; on a
\* state where the reserved account does not exist it does not create it.
C40_ReadsPure ==
    [][last'.op \in Reads =>
           /\ Governance(MNext(1)) = Governance(M(1))
           /\ \A a \in KProviders \cup {21, KycContractAddress} :
                  Exist(MNext(1), a).ret = Exist(M(1), a).ret
           /\ Len(sdb'[1].journal) = Len(sdb[1].journal)]_vars

\* GetKycProviderCount as the first call on a fresh StateDB: the reserved
\* account exists afterwards and the journal holds its creation.
C40_Witness ==
    /\ last.op = "GetKycProviderCount"
    /\ hist.calls = 1
    /\ Exist(M(1), KycContractAddress).ret
    /\ ~Exist(Fresh, KycContractAddress).ret
    /\ Len(sdb[1].journal) = 1

\* ---------------------------------------------------------------------------
\* Further properties of SpecProviders.
\* ---------------------------------------------------------------------------

\* The provider set after the proposal of type pt about addr was applied.
AppliedTo(providers, pt, addr) ==
    IF pt = 1 THEN providers \cup {addr} ELSE providers \ {addr}

\* The last step was a vote call.
IsVoteCall ==
    /\ last'.op = "kycExecute"
    /\ last'.id = KycMethodVote

\* C36 (provider set changes need a yes majority): while the provider list has
\* 2 members or more, the provider set changes only at an accepted yes vote
\* that brings the yes votes on the proposal to more than half of the eligible
\* voters counted when the proposal was made, and it changes by the address
\* and the type of that proposal; a no vote leaves the provider set as it is.
C36_YesMajorityOnly ==
    [][/\ (GetKycProviderCount(M(1)).ret >= 2 /\ Providers(MNext(1)) # Providers(M(1))) =>
              /\ IsVote
              /\ hist'.input.nay = 0
              /\ GetKycProviderProposol(M(1)).total = hist.total
              /\ 2 * YesVotes(hist.cast) <= hist.total
              /\ 2 * YesVotes(hist'.cast) > hist.total
              /\ Providers(MNext(1)) = AppliedTo(Providers(M(1)),
                                                 GetKycProviderProposol(M(1)).type,
                                                 GetKycProviderProposol(M(1)).addr)
       /\ (IsVoteCall /\ hist'.input.nay # 0) => Providers(MNext(1)) = Providers(M(1))]_vars

\* Five providers: 11 proposed to remove 12, 12 voted no, 13 and 14 voted
\* yes, and the third yes vote of five removed 12.
C36_Witness ==
    /\ last.op = "kycExecute"
    /\ last.id = KycMethodVote
    /\ last.ok
    /\ hist.input.nay = 0
    /\ hist.total = 5
    /\ hist.cast = <<0, 1, 0, 0>>
    /\ Providers(M(1)) = {11, 13, 14, 15}

\* The voter slots of the proposal, below its number of eligible voters.
VoterSlots(m) ==
    [i \in 1..GetKycProviderProposol(m).total |->
        GetState(m, KycContractAddress, BigToHash(kycVoterStartHash, i - 1)).ret]

\* The addresses recorded as voters of the proposal.
RecordedVoters(m) == {VoterSlots(m)[i] : i \in 1..Len(VoterSlots(m))} \ {ZeroAddress}

\* C37 (one vote per provider per proposal): no address is recorded twice
\* among the voters of a proposal, the proposer included; the votes recorded
\* are the votes accepted and are no more than the eligible voters; and a
\* vote call by an address that is recorded already is rejected and leaves
\* the record and the yes and no tallies unchanged.
C37_OneVotePerProvider ==
    [][/\ \A i, j \in 1..Len(VoterSlots(MNext(1))) :
              (VoterSlots(MNext(1))[i] # ZeroAddress
                   /\ VoterSlots(MNext(1))[i] = VoterSlots(MNext(1))[j]) => i = j
       /\ Len(hist'.cast) <= hist'.total
       /\ GetKycProviderProposol(MNext(1)).addr # ZeroAddress =>
              /\ Cardinality(RecordedVoters(MNext(1))) = Len(hist'.cast)
              /\ GetKycProviderProposol(MNext(1)).yes = YesVotes(hist'.cast)
              /\ GetKycProviderProposol(MNext(1)).no
                     = Len(hist'.cast) - YesVotes(hist'.cast)
       /\ (IsVoteCall /\ last'.addr \in RecordedVoters(M(1))) =>
              /\ ~last'.ok
              /\ hist'.err = ErrOutOfGas
              /\ ProposalRecord(MNext(1)) = ProposalRecord(M(1))
              /\ GetKycProviderProposol(MNext(1)).yes = GetKycProviderProposol(M(1)).yes
              /\ GetKycProviderProposol(MNext(1)).no = GetKycProviderProposol(M(1)).no]_vars

\* Five providers: 11 proposed, 12 voted no and voted again: the second vote
\* was rejected and the proposal has one yes and one no.
C37_Witness ==
    /\ last.op = "kycExecute"
    /\ last.id = KycMethodVote
    /\ last.addr = 12
    /\ ~last.ok
    /\ hist.cast = <<0, 1>>
    /\ VoterSlots(M(1)) = <<11, 12, 0, 0, 0>>
    /\ GetKycProviderProposol(M(1)).yes = 1
    /\ GetKycProviderProposol(M(1)).no = 1
    /\ InVoting(GetKycProviderProposol(M(1)), now)

\* The proposal p is pending at time: it names a candidate, fewer than 86400
\* seconds have passed since it started, and its yes votes are no more than
\* half of its eligible voters.
Pending(p, time) ==
    /\ p.addr # ZeroAddress
    /\ time - p.time < 86400
    /\ 2 * p.yes <= p.total

\* The start-proposal call of the last step passes the checks of the caller
\* and of the candidate.
PassesChecks ==
    /\ last'.addr \in Providers(M(1))
    /\ ~IsContractAddress(M(1), last'.addr).ret
    /\ ~IsContractAddress(M(1), hist'.input.address).ret
    /\ hist'.input.pt \in 1..2
    /\ hist'.input.pt = 1 => hist'.input.address \notin Providers(M(1))

\* C38 (single pending proposal): with 2 providers or more, a start-proposal
\* call that passes the checks is rejected exactly when a proposal is pending;
\* the rejected call leaves the proposal and its votes unchanged, and the
\* accepted call stores the new proposal with the providers counted now,
\* clears the vote slots and records the yes vote of the proposer.
C38_SinglePending ==
    [][(IsProposal /\ GetKycProviderCount(M(1)).ret >= 2 /\ PassesChecks) =>
           /\ ~last'.ok <=> Pending(GetKycProviderProposol(M(1)), now)
           /\ ~last'.ok =>
                  /\ hist'.err = ErrOutOfGas
                  /\ ProposalRecord(MNext(1)) = ProposalRecord(M(1))
           /\ last'.ok =>
                  /\ GetKycProviderProposol(MNext(1)).addr = hist'.input.address
                  /\ GetKycProviderProposol(MNext(1)).type = hist'.input.pt
                  /\ GetKycProviderProposol(MNext(1)).time = now
                  /\ GetKycProviderProposol(MNext(1)).total = GetKycProviderCount(M(1)).ret
                  /\ GetKycProviderProposol(MNext(1)).yes = 1
                  /\ GetKycProviderProposol(MNext(1)).no = 0
                  /\ VoterSlots(MNext(1))
                         = [i \in 1..GetKycProviderCount(M(1)).ret |->
                               IF i = 1 THEN last'.addr ELSE ZeroAddress]]_vars

\* Five providers: 11 proposed to add 16, 12 voted no, a day passed, and 11
\* proposed to remove 12: the call was accepted and the vote of 12 is gone.
C38_Witness ==
    /\ last.op = "kycExecute"
    /\ last.id = KycMethodProviderVoteProposal
    /\ last.ok
    /\ hist.ticks = 1
    /\ hist.calls = 3
    /\ hist.input.pt = 2
    /\ hist.input.address = 12
    /\ GetKycProviderProposol(M(1)).time = block_timestamp_epoch + 86400
    /\ VoterSlots(M(1)) = <<11, 0, 0, 0, 0>>
    /\ GetKycProviderProposol(M(1)).no = 0

====
